---- MODULE Spec2Model ----
(***************************************************************************)
(* The game-room state machine of src/root/server.js (first revision,      *)
(* lines 1-991): the room directory (activeGameRooms), the per-room round  *)
(* state (gameStates), the connection registry (users) and the timers that *)
(* drive round progression, with one action per socket event handler and   *)
(* one per timer callback.                                                 *)
(*                                                                         *)
(* Handlers are written as operators over a record `st` of the server's    *)
(* mutable state so that a handler that calls another function             *)
(* (handlePlayerLeave, startNewDoodleRound, ...) is one atomic action, as  *)
(* it is on the single-threaded event loop.  st.out collects the events    *)
(* the handler emits, in order, and st.armed the timers it sets.  The      *)
(* socket.io audience of each game room (who receives io.to(room)) is kept *)
(* beside the member lists, since the code changes the two separately.     *)
(***************************************************************************)
EXTENDS Bags, FiniteSets, Integers, Sequences, TLC

\* ---------------------------------------------------------------- bounds
\* Connections ever opened (socket ids are never reused).
MaxSockets == 3
\* Rooms ever created (room ids are fresh UUIDs).
MaxRooms == 1
\* Length of the prefix of the word lists the model draws from.
NumWords == 2
\* Pending timers the model lets accumulate.
MaxPending == 2
\* Guesses that would take a score above MaxScore are not explored.
MaxScore == 2
\* Strokes the stroke log of a round is let grow to.
MaxStrokes == 1

\* ------------------------------------------------------------- constants
WINNING_SCORE == 10
MAX_INCORRECT_GUESSES == 6

AllDoodleWords ==
  <<
     "apple", "banana", "car", "house", "tree", "star",
     "sun", "moon", "dog", "cat", "guitar", "pizza",
     "mountain", "river", "bridge", "flower", "bird", "fish",
     "clock", "key", "boat", "book", "chair", "hat",
     "shoe", "glasses", "bicycle", "camera", "computer", "earth"
  >>

DOODLE_WORDS == SubSeq(AllDoodleWords, 1, NumWords)

AllHangmanWords ==
  <<"javascript", "html", "css", "nodejs", "react", "angular", "vue",
    "typescript", "webpack", "babel", "mongodb", "express", "socketio",
    "python", "java", "ruby", "docker", "kubernetes", "developer",
    "programming", "algorithm", "database", "authentication", "framework",
    "library", "component", "interface", "repository">>

HANGMAN_WORDS == SubSeq(AllHangmanWords, 1, NumWords)

\* typeof lastWinnerIndex !== "number"
NotANumber == -1

\* the characters /^[a-z]$/ accepts
LowerLetters ==
  {"a", "b", "c", "d", "e", "f", "g", "h", "i", "j", "k", "l", "m",
   "n", "o", "p", "q", "r", "s", "t", "u", "v", "w", "x", "y", "z"}

\* The words of the lists as the sequences of their characters.
CharsOf ==
  [apple |-> <<"a", "p", "p", "l", "e">>,
   banana |-> <<"b", "a", "n", "a", "n", "a">>,
   car |-> <<"c", "a", "r">>,
   house |-> <<"h", "o", "u", "s", "e">>,
   tree |-> <<"t", "r", "e", "e">>,
   star |-> <<"s", "t", "a", "r">>,
   sun |-> <<"s", "u", "n">>,
   moon |-> <<"m", "o", "o", "n">>,
   dog |-> <<"d", "o", "g">>,
   cat |-> <<"c", "a", "t">>,
   guitar |-> <<"g", "u", "i", "t", "a", "r">>,
   pizza |-> <<"p", "i", "z", "z", "a">>,
   mountain |-> <<"m", "o", "u", "n", "t", "a", "i", "n">>,
   river |-> <<"r", "i", "v", "e", "r">>,
   bridge |-> <<"b", "r", "i", "d", "g", "e">>,
   flower |-> <<"f", "l", "o", "w", "e", "r">>,
   bird |-> <<"b", "i", "r", "d">>,
   fish |-> <<"f", "i", "s", "h">>,
   clock |-> <<"c", "l", "o", "c", "k">>,
   key |-> <<"k", "e", "y">>,
   boat |-> <<"b", "o", "a", "t">>,
   book |-> <<"b", "o", "o", "k">>,
   chair |-> <<"c", "h", "a", "i", "r">>,
   hat |-> <<"h", "a", "t">>,
   shoe |-> <<"s", "h", "o", "e">>,
   glasses |-> <<"g", "l", "a", "s", "s", "e", "s">>,
   bicycle |-> <<"b", "i", "c", "y", "c", "l", "e">>,
   camera |-> <<"c", "a", "m", "e", "r", "a">>,
   computer |-> <<"c", "o", "m", "p", "u", "t", "e", "r">>,
   earth |-> <<"e", "a", "r", "t", "h">>,
   javascript |-> <<"j", "a", "v", "a", "s", "c", "r", "i", "p", "t">>,
   html |-> <<"h", "t", "m", "l">>,
   css |-> <<"c", "s", "s">>,
   nodejs |-> <<"n", "o", "d", "e", "j", "s">>,
   react |-> <<"r", "e", "a", "c", "t">>,
   angular |-> <<"a", "n", "g", "u", "l", "a", "r">>,
   vue |-> <<"v", "u", "e">>,
   typescript |-> <<"t", "y", "p", "e", "s", "c", "r", "i", "p", "t">>,
   webpack |-> <<"w", "e", "b", "p", "a", "c", "k">>,
   babel |-> <<"b", "a", "b", "e", "l">>,
   mongodb |-> <<"m", "o", "n", "g", "o", "d", "b">>,
   express |-> <<"e", "x", "p", "r", "e", "s", "s">>,
   socketio |-> <<"s", "o", "c", "k", "e", "t", "i", "o">>,
   python |-> <<"p", "y", "t", "h", "o", "n">>,
   java |-> <<"j", "a", "v", "a">>,
   ruby |-> <<"r", "u", "b", "y">>,
   docker |-> <<"d", "o", "c", "k", "e", "r">>,
   kubernetes |-> <<"k", "u", "b", "e", "r", "n", "e", "t", "e", "s">>,
   developer |-> <<"d", "e", "v", "e", "l", "o", "p", "e", "r">>,
   programming |-> <<"p", "r", "o", "g", "r", "a", "m", "m", "i", "n", "g">>,
   algorithm |-> <<"a", "l", "g", "o", "r", "i", "t", "h", "m">>,
   database |-> <<"d", "a", "t", "a", "b", "a", "s", "e">>,
   authentication |-> <<"a", "u", "t", "h", "e", "n", "t", "i", "c", "a", "t", "i", "o", "n">>,
   framework |-> <<"f", "r", "a", "m", "e", "w", "o", "r", "k">>,
   library |-> <<"l", "i", "b", "r", "a", "r", "y">>,
   component |-> <<"c", "o", "m", "p", "o", "n", "e", "n", "t">>,
   interface |-> <<"i", "n", "t", "e", "r", "f", "a", "c", "e">>,
   repository |-> <<"r", "e", "p", "o", "s", "i", "t", "o", "r", "y">>]

\* A JavaScript string as the sequence of its characters.
Chars(w) == CharsOf[w]

Sockets == 1..MaxSockets
RoomIds == 1..MaxRooms
\* The room ids of the specification that opens one room more (SpecRooms).
AllRoomIds == 1..(MaxRooms + 1)

\* JavaScript null / undefined where a socket id or a word is expected.
NoSocket == 0
NoRoom == 0
NoWord == ""

\* ------------------------------------------------------- string functions
\* The lower-case letter of each capital.
LowerOf ==
  [A |-> "a", B |-> "b", C |-> "c", D |-> "d", E |-> "e", F |-> "f",
   G |-> "g", H |-> "h", I |-> "i", J |-> "j", K |-> "k", L |-> "l",
   M |-> "m", N |-> "n", O |-> "o", P |-> "p", Q |-> "q", R |-> "r",
   S |-> "s", T |-> "t", U |-> "u", V |-> "v", W |-> "w", X |-> "x",
   Y |-> "y", Z |-> "z"]

\* String.prototype.toLowerCase on one character.
LowerChar(c) == IF c \in DOMAIN LowerOf THEN LowerOf[c] ELSE c

toLowerCase(s) == [i \in 1..Len(s) |-> LowerChar(s[i])]

IsSpace(c) == c \in {" ", "\t", "\n"}

RECURSIVE trimStart(_)
trimStart(s) ==
  IF s # <<>> /\ IsSpace(Head(s)) THEN trimStart(Tail(s)) ELSE s

RECURSIVE trimEnd(_)
trimEnd(s) ==
  IF s # <<>> /\ IsSpace(s[Len(s)]) THEN trimEnd(SubSeq(s, 1, Len(s) - 1)) ELSE s

\* Mutant of trim: trailing white space is kept.
trim_StartOnly(s) == trimStart(s)

\* String.prototype.trim
trim(s) == trimEnd(trimStart(s))

\* ----------------------------------------------------- object operations
\* obj[k] = v
Put(f, k, v) == [x \in DOMAIN f \cup {k} |-> IF x = k THEN v ELSE f[x]]

\* delete obj[k]
Delete(f, k) == [x \in DOMAIN f \ {k} |-> f[x]]

\* Array.prototype.findIndex, 0-based, -1 when absent
RECURSIVE findIndexFrom(_, _, _)
findIndexFrom(seq, x, i) ==
  IF i > Len(seq) THEN -1
  ELSE IF seq[i] = x THEN i - 1
  ELSE findIndexFrom(seq, x, i + 1)

findIndex(seq, x) == findIndexFrom(seq, x, 1)

\* Array.prototype.splice(index, 1), index 0-based
splice1(seq, index) ==
  SubSeq(seq, 1, index) \o SubSeq(seq, index + 2, Len(seq))

\* Mutant of filterNotIn: nothing is filtered out.
filterNotIn_Nothing(seq, excluded) == seq

\* Array.prototype.filter keeping the elements outside `excluded`
RECURSIVE filterNotIn(_, _)
filterNotIn(seq, excluded) ==
  IF seq = <<>> THEN <<>>
  ELSE IF Head(seq) \in excluded THEN filterNotIn(Tail(seq), excluded)
  ELSE <<Head(seq)>> \o filterNotIn(Tail(seq), excluded)

Range(seq) == {seq[i] : i \in 1..Len(seq)}

\* ------------------------------------------------------------------ state
VARIABLES
  socketCount,      \* connections that have submitted a profile so far
  users,            \* users: ids of the live connections with a profile
  activeGameRooms,  \* activeGameRooms: room id -> room
  gameStates,       \* gameStates: room id -> round state
  roomsCreated,     \* rooms created so far
  timers,           \* pending setTimeout callbacks (a bag)
  audience,         \* per game room id, the connections socket.io delivers
                    \* the room's broadcasts to (io.sockets.adapter.rooms)
  emitted,          \* events emitted by the last handler that changed the state
  crashed,          \* an exception escaped a handler
  hist,             \* per room, what has happened in the current round
  rev0,             \* the server of src/unnamed/part_000 (per-round guessers)
  rev1              \* the server of src/unnamed/part_001, lines 1-806

vars ==
  <<socketCount, users, activeGameRooms, gameStates, roomsCreated,
    timers, audience, emitted, crashed, hist, rev0, rev1>>

\* ----------------------------------------------------------------- events
ToRoom(r) == <<"room", r>>
\* socket.to(room): the room without the sender
ToOthers(r) == <<"others", r>>
ToSocket(s) == <<"socket", s>>
ToAll == <<"all", 0>>

\* One emitted event: its name, its audience, the kind of text it carries,
\* the word its payload contains (NoWord if none) and, for a room list, the
\* ids of the rooms listed.
Event(ev, to, text, word, list) ==
  [ev |-> ev, to |-> to, text |-> text, word |-> word, list |-> list]

Emit(st, ev, to, text, word) ==
  [st EXCEPT !.out = Append(@, Event(ev, to, text, word, {}))]

\* getPublicRoomList
\* io.to(room).emit("game:over", { winner: users[winnerId], scores })
EmitOver(st, room, winnerId, scores) ==
  [st EXCEPT !.out = Append(@, [ev |-> "game:over", to |-> ToRoom(room), text |-> "",
                                word |-> NoWord, list |-> {},
                                winner |-> winnerId, scores |-> scores])]

getPublicRoomList(st) == DOMAIN st.rooms

EmitRoomsList(st, to) ==
  [st EXCEPT !.out =
     Append(@, Event("game:roomsList", to, "", NoWord, getPublicRoomList(st)))]

\* ----------------------------------------------------------------- timers
\* A pending timer: the callback it runs (kind), the room id and the word
\* its closure captured, whether the room's round state still holds its
\* handle (roundTimer / turnTimer), and whether the round it was scheduled
\* for has since been superseded (history, not program state).
Timer(kind, room, word, held) ==
  [kind |-> kind, room |-> room, word |-> word, held |-> held, stale |-> FALSE]

\* Mutant of setTimeout: the callback is never scheduled.
setTimeout_Dropped(st, t) == st

\* setTimeout: the callback is scheduled a full delay from now; armed lists
\* the timers the running handler has set.
setTimeout(st, t) ==
  [st EXCEPT !.timers = @ (+) SetToBag({t}), !.armed = Append(@, t)]

\* Mutant of clearHeld: the timer stays pending.
clearHeld_Nothing(st, roomId, kind) == st

\* clearTimeout(gameState.roundTimer) / clearTimeout(gameState.turnTimer):
\* cancels the timer whose handle the round state holds, if still pending.
clearHeld(st, roomId, kind) ==
  [st EXCEPT !.timers =
     [t \in {u \in BagToSet(@) : ~(u.room = roomId /\ u.kind = kind /\ u.held)}
        |-> @[t]]]

\* Number of copies the bag b holds of the elements of S.
RECURSIVE CopiesOf(_, _)
CopiesOf(b, S) ==
  IF S = {} THEN 0
  ELSE LET x == CHOOSE y \in S : TRUE IN b[x] + CopiesOf(b, S \ {x})

\* Rewrites every pending timer of the bag by f, adding up the copies.
MapBag(b, f(_)) ==
  IF \A t \in DOMAIN b : f(t) = t THEN b
  ELSE [t2 \in {f(t) : t \in DOMAIN b} |->
          CopiesOf(b, {t \in DOMAIN b : f(t) = t2})]

\* The round state object of roomId is dropped or replaced: the handles it
\* held are lost, so its pending timers can no longer be cancelled.
DropHandles(st, roomId) ==
  LET f(t) == IF t.room = roomId THEN [t EXCEPT !.held = FALSE] ELSE t
  IN [st EXCEPT !.timers = MapBag(@, f)]

\* History: the rounds of roomId the pending timers were scheduled for are over.
Supersede(st, roomId) ==
  LET f(t) == IF t.room = roomId THEN [t EXCEPT !.stale = TRUE] ELSE t
  IN [st EXCEPT !.timers = MapBag(@, f)]

\* Number of pending timers of roomId.
PendingIn(b, roomId) == CopiesOf(b, {t \in BagToSet(b) : t.room = roomId})

\* ---------------------------------------------------------------- history
\* guessed: a correct guess was scored in the current round; timeUp: its
\* deadline timer fired and announced the word; changed: a member left after
\* the first correct guess of the round.
NoHist == [guessed |-> FALSE, timeUp |-> FALSE, changed |-> FALSE]

\* ------------------------------------------------------- state as a record
Cur ==
  [users |-> users, rooms |-> activeGameRooms, gs |-> gameStates,
   timers |-> timers, aud |-> audience, out |-> <<>>, armed |-> <<>>,
   retries |-> 0,
   crashed |-> FALSE,
   hist |-> hist]

\* The two records hold the same program state (and history).
Same(a, b) ==
  /\ a.users = b.users
  /\ a.rooms = b.rooms
  /\ a.gs = b.gs
  /\ a.timers = b.timers
  /\ a.aud = b.aud
  /\ a.crashed = b.crashed
  /\ a.hist = b.hist

\* The handler's result becomes the next state.  A request that changes
\* nothing is a stuttering step: emitted keeps the events of the last
\* handler that changed the state.
Commit(st) ==
  \E res \in {st} :
    /\ BagCardinality(res.timers) <= MaxPending
    /\ users' = res.users
    /\ activeGameRooms' = res.rooms
    /\ gameStates' = res.gs
    /\ timers' = res.timers
    /\ audience' = res.aud
    /\ emitted' = IF Same(res, Cur) THEN emitted ELSE res.out
    /\ crashed' = res.crashed
    /\ hist' = res.hist
    /\ rev0' = rev0
    /\ rev1' = rev1

\* ------------------------------------- src/unnamed/part_000: the revision
\* with per-round guessers.  Its whole state is the record rev0: users (the
\* connections with a profile), gone (closed connections), rooms and gs (at
\* most one game room, id P0Room, and its round state), aud (the connections
\* in the socket.io room), crashed, and awards (history: per connection, the
\* guess awards received in the current round).
P0Room == 1

GUESS_SCORE == 100
DRAW_SCORE_PER_GUESSER == 20

\* GAME_WORDS (part_000 lines 34-486), its first NumWords entries
GAME_WORDS ==
  SubSeq(<<"apple", "banana", "car", "house", "tree", "star", "sun", "moon">>,
         1, NumWords)

p0_Init ==
  [users |-> {}, gone |-> {}, rooms |-> <<>>, gs |-> <<>>, aud |-> {},
   created |-> FALSE, crashed |-> FALSE, awards |-> [s \in Sockets |-> 0]]

\* ------------------------------------- src/unnamed/part_001, lines 1-806:
\* the earlier revision.  Its whole state is the record rev1: users, roomOf
\* (user.roomId of each user), rooms and gs (at most one game room, id
\* P1Room, and its round state), created, crashed.
P1Room == 1

\* the room "global" every profile starts in (line 397)
P1Global == 0

p1_Init ==
  [users |-> {}, gone |-> {}, roomOf |-> <<>>, rooms |-> <<>>, gs |-> <<>>,
   created |-> FALSE, crashed |-> FALSE]

Init ==
  /\ socketCount = 0
  /\ users = {}
  /\ activeGameRooms = <<>>
  /\ gameStates = <<>>
  /\ roomsCreated = 0
  /\ timers = EmptyBag
  /\ audience = [r \in AllRoomIds |-> {}]
  /\ emitted = <<>>
  /\ crashed = FALSE
  /\ hist = [r \in AllRoomIds |-> NoHist]
  /\ rev0 = p0_Init
  /\ rev1 = p1_Init

\* --------------------------------------------------------- doodle rounds
\* scores[id] || 0
ScoreOf(scores, id) == IF id \in DOMAIN scores THEN scores[id] ELSE 0

\* gameState.scores[id] = v, keeping Object.keys insertion order in scoreKeys
SetScore(g, id, v) ==
  [g EXCEPT !.scores = Put(@, id, v),
            !.scoreKeys = IF id \in DOMAIN g.scores THEN @ ELSE Append(@, id)]

\* The body of startNewDoodleRound once the room is known to be playable
\* (lines 751-793); depth counts the self-retries on a drawer that is not in
\* the registry, which never end if no member is.
RECURSIVE startRound(_, _, _, _)
startRound(st, roomId, rnd, depth) ==
  LET room == st.rooms[roomId]
      g0 == st.gs[roomId]
      players == room.players
      nextDrawerIndex == (g0.currentPlayerIndex + 1) % Len(players)
      drawerId == players[nextDrawerIndex + 1]
      g1 == [g0 EXCEPT !.drawingHistory = <<>>,
                       !.players = players,
                       !.currentPlayerIndex = nextDrawerIndex]
      s1 == [st EXCEPT !.gs[roomId] = g1]
  IN IF drawerId \notin st.users
     THEN IF depth >= Len(players)
          THEN [s1 EXCEPT !.crashed = TRUE, !.retries = @ + 1]
          ELSE startRound([s1 EXCEPT !.retries = @ + 1], roomId, rnd, depth + 1)
     ELSE
       LET filtered == filterNotIn(DOODLE_WORDS, g1.usedWords)
           cleared == filtered = <<>>
           availableWords == IF cleared THEN DOODLE_WORDS ELSE filtered
           word == availableWords[(rnd % Len(availableWords)) + 1]
           g2 == [g1 EXCEPT !.usedWords = (IF cleared THEN {} ELSE @) \cup {word},
                            !.drawer = drawerId,
                            !.word = word,
                            !.isRoundActive = TRUE,
                            !.roundTimer = TRUE]
           s2 == Emit([s1 EXCEPT !.gs[roomId] = g2, !.hist[roomId] = NoHist],
                      "game:new_round", ToRoom(roomId), "", NoWord)
           s3 == Supersede(IF g1.roundTimer THEN clearHeld(s2, roomId, "roundEnd") ELSE s2,
                           roomId)
           s4 == setTimeout(s3, Timer("roundEnd", roomId, word, TRUE))
           s5 == Emit(s4, "game:state", ToRoom(roomId), "", NoWord)
       IN Emit(s5, "game:word_prompt", ToSocket(drawerId), "", word)

\* Mutant of doodleCannotContinue: the room is read without testing that it
\* is there.
doodleCannotContinue_RoomRead(st, roomId) ==
  IF roomId \in DOMAIN st.rooms
  THEN [st EXCEPT !.rooms[roomId].inProgress = FALSE]
  ELSE [st EXCEPT !.crashed = TRUE]

\* The branch of startNewDoodleRound for a room that is gone, has no round
\* state or has fewer than 2 members (lines 738-749).
doodleCannotContinue(st, roomId) ==
  LET hasState == roomId \in DOMAIN st.gs
      hasRoom == roomId \in DOMAIN st.rooms
      s1 == IF hasRoom THEN [st EXCEPT !.rooms[roomId].inProgress = FALSE] ELSE st
      s2 == IF hasState THEN [s1 EXCEPT !.gs[roomId].isRoundActive = FALSE] ELSE s1
      s3 == Emit(s2, "game:end", ToRoom(roomId), "not_enough", NoWord)
      s4 == Emit(s3, "game:state", ToRoom(roomId), "", NoWord)
  IN EmitRoomsList(s4, ToAll)

startNewDoodleRound(st, roomId, rnd) ==
  LET hasState == roomId \in DOMAIN st.gs
      hasRoom == roomId \in DOMAIN st.rooms
  IN IF ~hasState \/ ~hasRoom \/ Len(st.rooms[roomId].players) < 2
     THEN doodleCannotContinue(st, roomId)
     ELSE startRound(st, roomId, rnd, 0)

\* Mutant of findWinner: no winner is ever found.
findWinner_None(keys, scores) == NoSocket

\* Object.keys(scores).find(id => scores[id] >= WINNING_SCORE), NoSocket if none
RECURSIVE findWinner(_, _)
findWinner(keys, scores) ==
  IF keys = <<>> THEN NoSocket
  ELSE IF scores[Head(keys)] >= WINNING_SCORE THEN Head(keys)
  ELSE findWinner(Tail(keys), scores)

\* Mutant of DeleteRoom: the room is deleted, its round state is kept.
DeleteRoom_StateKept(st, roomId) ==
  Supersede(DropHandles([st EXCEPT !.rooms = Delete(@, roomId)], roomId), roomId)

\* The room and its round state are deleted: the handles are lost and every
\* timer still pending for the room belongs to a round that is over.
DeleteRoom(st, roomId) ==
  Supersede(DropHandles([st EXCEPT !.rooms = Delete(@, roomId),
                                   !.gs = Delete(@, roomId)], roomId), roomId)

\* Mutant of isDrawer: the sender is never taken for the drawer.
isDrawer_Never(g, socketId) == FALSE

\* Line 691: socket.id === gameState.drawer.id
isDrawer(g, socketId) == socketId = g.drawer

handleDoodleGuess(st, socketId, room, text) ==
  LET g0 == st.gs[room]
  IN IF isDrawer(g0, socketId)
     THEN Emit(st, "rate limit", ToSocket(socketId), "cannot_chat", NoWord)
     ELSE IF toLowerCase(trim(text)) = toLowerCase(Chars(g0.word))
     THEN
       LET s1 == clearHeld(st, room, "roundEnd")
           drawerSocketId == g0.drawer
           g1 == SetScore(g0, socketId, ScoreOf(g0.scores, socketId) + 2)
           g2 == IF drawerSocketId \in st.users
                 THEN SetScore(g1, drawerSocketId, ScoreOf(g1.scores, drawerSocketId) + 1)
                 ELSE g1
           h == [st.hist[room] EXCEPT !.guessed = TRUE]
           s2 == Emit([s1 EXCEPT !.gs[room] = g2, !.hist[room] = h],
                      "game:correct_guess", ToRoom(room), "", g0.word)
           winnerId == findWinner(g2.scoreKeys, g2.scores)
       IN IF winnerId # NoSocket /\ winnerId \in st.users
          THEN EmitRoomsList(DeleteRoom(EmitOver(s2, room, winnerId, g2.scores), room),
                             ToAll)
          ELSE setTimeout(s2, Timer("nextDoodle", room, NoWord, FALSE))
     ELSE Emit(st, "chat message", ToRoom(room), "chat", NoWord)

\* Mutant of roundTimeUp: the word is announced and no next round scheduled.
roundTimeUp_NoNext(st, t) ==
  Emit(st, "game:message", ToRoom(t.room), "times_up", t.word)

\* The callback of the round deadline timer (lines 780-783).
roundTimeUp(st, t) ==
  LET s1 == Emit(st, "game:message", ToRoom(t.room), "times_up", t.word)
      s2 == IF t.room \in DOMAIN s1.gs /\ s1.gs[t.room].gameType = "doodle"
               /\ s1.gs[t.room].isRoundActive /\ s1.gs[t.room].word = t.word
            THEN [s1 EXCEPT !.hist[t.room].timeUp = TRUE]
            ELSE s1
  IN setTimeout(s2, [Timer("nextDoodle", t.room, NoWord, FALSE) EXCEPT !.stale = t.stale])


\* -------------------------------------------------------- hangman rounds
\* setHangmanTurnTimer
setHangmanTurnTimer(st, roomId) ==
  IF roomId \notin DOMAIN st.gs \/ ~st.gs[roomId].isRoundActive THEN st
  ELSE
    LET g0 == st.gs[roomId]
        s1 == IF g0.turnTimer THEN clearHeld(st, roomId, "turn") ELSE st
        s2 == setTimeout([s1 EXCEPT !.gs[roomId].turnTimer = TRUE],
                         Timer("turn", roomId, NoWord, TRUE))
    IN Emit(s2, "game:state", ToRoom(roomId), "", g0.word)

\* startNewHangmanRound; rnd and coin are the two Math.random() draws
startNewHangmanRound(st, roomId, rnd, coin) ==
  LET hasState == roomId \in DOMAIN st.gs
      hasRoom == roomId \in DOMAIN st.rooms
  IN IF ~hasRoom \/ ~hasState \/ Len(st.rooms[roomId].players) < 2
     THEN
       LET s1 == IF hasRoom THEN [st EXCEPT !.rooms[roomId].inProgress = FALSE] ELSE st
           s2 == Emit(s1, "game:end", ToRoom(roomId), "not_enough", NoWord)
       IN EmitRoomsList(s2, ToAll)
     ELSE
       LET room == st.rooms[roomId]
           g0 == st.gs[roomId]
           word == HANGMAN_WORDS[(rnd % Len(HANGMAN_WORDS)) + 1]
           currentPlayerIndex ==
             IF g0.lastWinnerIndex # NotANumber
             THEN (g0.lastWinnerIndex + 1) % 2
             ELSE coin
           g1 == [g0 EXCEPT !.word = word,
                            !.displayWord = [i \in 1..Len(Chars(word)) |-> "_"],
                            !.incorrectGuesses = <<>>,
                            !.correctGuesses = <<>>,
                            !.isRoundActive = TRUE,
                            !.isGameOver = FALSE,
                            !.winner = NoSocket,
                            !.currentPlayerIndex = currentPlayerIndex,
                            !.currentPlayerTurn = room.players[currentPlayerIndex + 1]]
           s1 == Emit(Supersede([st EXCEPT !.gs[roomId] = g1], roomId),
                      "game:new_round", ToRoom(roomId), "", NoWord)
           s2 == setHangmanTurnTimer(s1, roomId)
       IN Emit(s2, "game:state", ToRoom(roomId), "", word)

\* Lines 909-913 of handleHangmanGuess: the turn passes to the other player.
\* The function's parameter is named room; the identifier roomId it reads is
\* not in scope, so the lookup throws ReferenceError.
passTurnAfterMiss(st, room) == [st EXCEPT !.crashed = TRUE]

\* Mutant of isLost: no number of misses ends the round.
isLost_Never(g) == FALSE

\* gameState.incorrectGuesses.length >= MAX_INCORRECT_GUESSES (lines 892, 957)
isLost(g) == Len(g.incorrectGuesses) >= MAX_INCORRECT_GUESSES

handleHangmanGuess(st, socketId, room, letter) ==
  LET g0 == st.gs[room]
      s0 == IF g0.turnTimer THEN clearHeld(st, room, "turn") ELSE st
      cleaned == toLowerCase(trim(letter))
      cleanedLetter == cleaned[1]
      word == Chars(g0.word)
  IN IF Len(cleaned) # 1 \/ cleaned[1] \notin LowerLetters
     THEN setHangmanTurnTimer(
            Emit(s0, "rate limit", ToSocket(socketId), "single_letter", NoWord), room)
     ELSE IF cleanedLetter \in Range(g0.correctGuesses)
              \/ cleanedLetter \in Range(g0.incorrectGuesses)
     THEN setHangmanTurnTimer(
            Emit(s0, "rate limit", ToSocket(socketId), "already_guessed", NoWord), room)
     ELSE
       LET isCorrect == cleanedLetter \in Range(word)
           correct1 == IF isCorrect THEN Append(g0.correctGuesses, cleanedLetter)
                       ELSE g0.correctGuesses
           g1 == IF isCorrect
                 THEN [g0 EXCEPT !.correctGuesses = correct1,
                                 !.displayWord =
                                   [i \in 1..Len(word) |->
                                      IF word[i] \in Range(correct1) THEN word[i] ELSE "_"]]
                 ELSE [g0 EXCEPT !.incorrectGuesses = Append(@, cleanedLetter)]
           s1 == Emit([s0 EXCEPT !.gs[room] = g1], "chat message", ToRoom(room),
                      IF isCorrect THEN "correct_letter" ELSE "incorrect_letter", NoWord)
           won == "_" \notin Range(g1.displayWord)
           lost == isLost(g1)
       IN IF won \/ lost
          THEN
            LET g2 == [g1 EXCEPT !.isRoundActive = FALSE,
                                 !.isGameOver = TRUE,
                                 !.winner = IF won THEN socketId ELSE NoSocket,
                                 !.lastWinnerIndex =
                                   IF won THEN g1.currentPlayerIndex
                                   ELSE (g1.currentPlayerIndex + 1) % 2]
                s2 == Emit([s1 EXCEPT !.gs[room] = g2], "game:message", ToRoom(room),
                           IF won THEN "won" ELSE "game_over", g1.word)
                s3 == setTimeout(s2, Timer("nextHangman", room, NoWord, FALSE))
            IN Emit(s3, "game:state", ToRoom(room), "", g1.word)
          ELSE IF ~isCorrect
          THEN passTurnAfterMiss(s1, room)
          ELSE Emit(setHangmanTurnTimer(s1, room), "game:state", ToRoom(room), "", g1.word)

handleHangmanTimeout(st, roomId) ==
  IF roomId \notin DOMAIN st.gs \/ ~st.gs[roomId].isRoundActive THEN st
  ELSE
    LET g0 == st.gs[roomId]
        s1 == Emit(st, "chat message", ToRoom(roomId), "timed_out", NoWord)
        g1 == [g0 EXCEPT !.incorrectGuesses = Append(@, " ")]
        lost == isLost(g1)
    IN IF lost
       THEN
         LET g2 == [g1 EXCEPT !.isRoundActive = FALSE,
                              !.isGameOver = TRUE,
                              !.lastWinnerIndex = (g1.currentPlayerIndex + 1) % 2]
             s2 == Emit([s1 EXCEPT !.gs[roomId] = g2], "game:message", ToRoom(roomId),
                        "game_over", g1.word)
             s3 == setTimeout(s2, Timer("nextHangman", roomId, NoWord, FALSE))
         IN Emit(s3, "game:state", ToRoom(roomId), "", g1.word)
       ELSE IF roomId \notin DOMAIN st.rooms
       THEN [s1 EXCEPT !.gs[roomId] = g1, !.crashed = TRUE]
       ELSE
         LET currentRoom == st.rooms[roomId]
             index == (g1.currentPlayerIndex + 1) % Len(currentRoom.players)
             g2 == [g1 EXCEPT !.currentPlayerIndex = index,
                              !.currentPlayerTurn = currentRoom.players[index + 1]]
             s2 == setHangmanTurnTimer([s1 EXCEPT !.gs[roomId] = g2], roomId)
         IN Emit(s2, "game:state", ToRoom(roomId), "", g1.word)


\* ------------------------------------------------------- leaving a room
\* Mutant of leaveTeardown: the round state goes, the room stays listed.
leaveTeardown_RoomKept(st, roomId) == [st EXCEPT !.gs = Delete(@, roomId)]

\* Lines 150-161: too few members remain.
leaveTeardown(st, roomId) ==
  LET hasState == roomId \in DOMAIN st.gs
      s1 == IF hasState /\ st.gs[roomId].isRoundActive
            THEN
              LET g == st.gs[roomId]
                  a == IF "roundTimer" \in DOMAIN g /\ g.roundTimer
                       THEN clearHeld(st, roomId, "roundEnd") ELSE st
                  b == IF "turnTimer" \in DOMAIN g /\ g.turnTimer
                       THEN clearHeld(a, roomId, "turn") ELSE a
                  c == Emit(b, "game:message", ToRoom(roomId), "not_enough", NoWord)
              IN Emit(c, "game:terminated", ToRoom(roomId), "not_enough", NoWord)
            ELSE st
  IN DeleteRoom(s1, roomId)

\* Mutant of reelectHost: the departing host stays the room's host.
reelectHost_Skipped(st, socketId, roomId) == st

\* Mutant of reelectHost: the member who joined last becomes the host.
reelectHost_LastMember(st, socketId, roomId) ==
  LET room == st.rooms[roomId]
  IN IF room.creatorId = socketId
     THEN Emit([st EXCEPT !.rooms[roomId].creatorId = room.players[Len(room.players)]],
               "game:message", ToRoom(roomId), "new_host", NoWord)
     ELSE st

\* Lines 163-170: the host is re-elected when the host is the one leaving.
reelectHost(st, socketId, roomId) ==
  LET room == st.rooms[roomId]
  IN IF room.creatorId = socketId
     THEN Emit([st EXCEPT !.rooms[roomId].creatorId = room.players[1]],
               "game:message", ToRoom(roomId), "new_host", NoWord)
     ELSE st

\* Mutant of leaveDuringRound: the round goes on whoever has left.
leaveDuringRound_RoundKept(st, socketId, roomId, g, rnd) == st

\* Mutant of leaveDuringRound: any departure during a round starts a new one.
leaveDuringRound_NewRound(st, socketId, roomId, g, rnd) ==
  startNewDoodleRound(clearHeld(st, roomId, "roundEnd"), roomId, rnd)

\* Mutant of leaveDuringRound: any departure during a round ends the game.
leaveDuringRound_GameEnded(st, socketId, roomId, g, rnd) == DeleteRoom(st, roomId)

\* Lines 172-195: what a departure does to the round in progress.
leaveDuringRound(st, socketId, roomId, g, rnd) ==
  LET room == st.rooms[roomId]
  IN IF room.gameType = "doodle" /\ g.drawer = socketId
     THEN
       LET s1 == Emit(st, "game:message", ToRoom(roomId), "drawer_left", NoWord)
       IN startNewDoodleRound(clearHeld(s1, roomId, "roundEnd"), roomId, rnd)
     ELSE IF room.gameType = "hangman" /\ g.currentPlayerTurn = socketId
     THEN
       LET s1 == Emit(st, "game:message", ToRoom(roomId), "player_left", NoWord)
           s2 == Emit(s1, "game:terminated", ToRoom(roomId), "player_left", NoWord)
       IN DeleteRoom(s2, roomId)
     ELSE st

\* The game:state payload of lines 197-201: the round state object spread
\* into the payload, so it carries the object's word.  (The payload is taken
\* to be delivered as built.)
leaveStatePayloadWord(g) == g.word

handlePlayerLeave(st, socketId, roomId, rnd) ==
  IF roomId \notin DOMAIN st.rooms THEN st
  ELSE
    LET room == st.rooms[roomId]
        playerIndex == findIndex(room.players, socketId)
    IN IF playerIndex = -1 THEN st
       ELSE
         LET s1 == Emit([st EXCEPT !.rooms[roomId].players = splice1(@, playerIndex),
                                   !.hist[roomId].changed = @ \/ st.hist[roomId].guessed],
                        "chat message", ToRoom(roomId), "left", NoWord)
             hasState == roomId \in DOMAIN st.gs
             minPlayers == 2
             s2 == IF Len(s1.rooms[roomId].players) < minPlayers
                   THEN leaveTeardown(s1, roomId)
                   ELSE
                     LET a == reelectHost(s1, socketId, roomId)
                         b == IF hasState /\ st.gs[roomId].isRoundActive
                              THEN leaveDuringRound(a, socketId, roomId, st.gs[roomId], rnd)
                              ELSE a
                     IN IF hasState
                        THEN
                          \* gameState is the object read at line 147, as it is now
                          LET g == IF roomId \in DOMAIN b.gs THEN b.gs[roomId]
                                   ELSE st.gs[roomId]
                          IN Emit(b, "game:state", ToRoom(roomId), "",
                                  leaveStatePayloadWord(g))
                        ELSE b
         IN EmitRoomsList(s2, ToAll)


\* ----------------------------------------------------------------- inputs
\* Passwords a client may send; "" stands for none (password || null).
Passwords == {"", "pw"}

GameTypes == {"doodle", "hangman"}

\* Chat texts: every word of the list, and the first word in another case
\* with a trailing space.
Texts ==
  {Chars(DOODLE_WORDS[i]) : i \in 1..Len(DOODLE_WORDS)}
    \cup {<<"A", "p", "p", "l", "e", " ">>}

\* Letters sent to hangman:guess: one that is in every word of the prefix,
\* one that is in none, a capital with a space before it, a two-letter string.
Letters == {<<"t">>, <<"z">>, <<" ", "T">>, <<"h", "t">>}

Draws == 0..(NumWords - 1)

\* The data of a stroke.
Strokes == {"a", "b"}

\* --------------------------------------------------------------- actions
\* socket.join(roomId), socket.leave(roomId)
socketJoin(st, s, roomId) == [st EXCEPT !.aud[roomId] = @ \cup {s}]

socketLeave(st, s, roomId) == [st EXCEPT !.aud[roomId] = @ \ {s}]

\* socket.on("user info") (lines 213-223)
\* A connection is given its id when it first submits a valid profile: the
\* handlers of the game do nothing for a connection that has none.
UserInfo(s, validNickname) ==
  /\ ~crashed
  /\ \/ s \in users /\ UNCHANGED socketCount
     \/ /\ s = socketCount + 1
        /\ s <= MaxSockets
        /\ validNickname
        /\ socketCount' = s
  /\ IF ~validNickname THEN Commit(Cur)
     ELSE LET s1 == [Cur EXCEPT !.users = @ \cup {s}]
              s2 == Emit(s1, "user list", ToAll, "", NoWord)
          IN Commit(EmitRoomsList(s2, ToSocket(s)))
  /\ UNCHANGED roomsCreated

\* socket.on("game:create") (lines 453-478)
GameCreate(s, password, gameType) ==
  /\ ~crashed
  /\ s \in users
  /\ IF s \notin users
     THEN Commit(Cur) /\ UNCHANGED roomsCreated
     ELSE
       /\ roomsCreated' = roomsCreated + 1
       /\ LET roomId == roomsCreated + 1
              newRoom == [creatorId |-> s, players |-> <<s>>, password |-> password,
                          inProgress |-> FALSE, gameType |-> gameType]
              s0 == [Cur EXCEPT !.rooms = Put(@, roomId, newRoom)]
              s1 == socketJoin(s0, s, roomId)
              s2 == Emit(s1, "game:joined", ToSocket(s), "", NoWord)
              s3 == EmitRoomsList(s2, ToAll)
          IN Commit(Emit(s3, "game:state", ToRoom(roomId), "", NoWord))
  /\ UNCHANGED socketCount

\* Mutant of roomIsFull: no room is ever full.
roomIsFull_Never(room) == FALSE

\* Line 493: a hangman room takes two players.
roomIsFull(room) == room.gameType = "hangman" /\ Len(room.players) >= 2

\* socket.on("game:join") (lines 480-521)
gameJoin(st, s, roomId, password) ==
  IF s \notin st.users \/ roomId \notin DOMAIN st.rooms THEN st
  ELSE
    LET room == st.rooms[roomId]
    IN IF room.inProgress
       THEN Emit(st, "game:join_error", ToSocket(s), "in_progress", NoWord)
       ELSE IF room.password # "" /\ room.password # password
       THEN Emit(st, "game:join_error", ToSocket(s), "password", NoWord)
       ELSE IF findIndex(room.players, s) # -1 THEN st
       ELSE IF roomIsFull(room)
       THEN Emit(st, "game:join_error", ToSocket(s), "full", NoWord)
       ELSE
         LET s0 == [st EXCEPT !.rooms[roomId].players = Append(@, s)]
             s1 == socketJoin(s0, s, roomId)
             s2 == Emit(s1, "game:joined", ToSocket(s), "", NoWord)
             s3 == Emit(s2, "chat message", ToRoom(roomId), "joined", NoWord)
             hasState == roomId \in DOMAIN st.gs
             s4 == Emit(s3, "game:state", ToRoom(roomId), "",
                        IF hasState THEN st.gs[roomId].word ELSE NoWord)
             s5 == IF hasState /\ st.gs[roomId].isRoundActive
                      /\ "drawingHistory" \in DOMAIN st.gs[roomId]
                   THEN Emit(s4, "game:drawing_history", ToSocket(s), "", NoWord)
                   ELSE s4
         IN EmitRoomsList(s5, ToAll)

GameJoin(s, roomId, password) ==
  /\ ~crashed
  /\ s \in users
  /\ Commit(gameJoin(Cur, s, roomId, password))
  /\ UNCHANGED <<socketCount, roomsCreated>>

\* socket.on("game:leave") (lines 523-526)
gameLeave(st, s, roomId, rnd) ==
  handlePlayerLeave(socketLeave(st, s, roomId), s, roomId, rnd)

GameLeave(s, roomId, rnd) ==
  /\ ~crashed
  /\ s \in users
  /\ Commit(gameLeave(Cur, s, roomId, rnd))
  /\ UNCHANGED <<socketCount, roomsCreated>>

\* Mutant of newDoodleState: the turn cursor starts on the first member.
newDoodleState_CursorAtZero(room) ==
  [gameType |-> "doodle",
   players |-> room.players,
   scores |-> [id \in Range(room.players) |-> 0],
   scoreKeys |-> room.players,
   isRoundActive |-> FALSE,
   currentPlayerIndex |-> 0,
   drawingHistory |-> <<>>,
   usedWords |-> {},
   drawer |-> NoSocket,
   word |-> NoWord,
   roundTimer |-> FALSE]

\* The round state game:start creates for a doodle room (lines 550-561).
\* Its creatorId field, a copy of the host id that no code reads back, is
\* left out; drawer, word and roundTimer start out undefined.
newDoodleState(room) ==
  [gameType |-> "doodle",
   players |-> room.players,
   scores |-> [id \in Range(room.players) |-> 0],
   scoreKeys |-> room.players,
   isRoundActive |-> FALSE,
   currentPlayerIndex |-> -1,
   drawingHistory |-> <<>>,
   usedWords |-> {},
   drawer |-> NoSocket,
   word |-> NoWord,
   roundTimer |-> FALSE]

\* The round state game:start creates for a hangman room (lines 564-569);
\* the fields startNewHangmanRound assigns later start out undefined.
newHangmanState(room) ==
  [gameType |-> "hangman",
   players |-> room.players,
   isRoundActive |-> FALSE,
   word |-> NoWord,
   displayWord |-> <<>>,
   incorrectGuesses |-> <<>>,
   correctGuesses |-> <<>>,
   isGameOver |-> FALSE,
   winner |-> NoSocket,
   currentPlayerIndex |-> -1,
   currentPlayerTurn |-> NoSocket,
   lastWinnerIndex |-> NotANumber,
   turnTimer |-> FALSE]

\* Mutant of mayStart: any user with a profile may start the game.
mayStart_AnyUser(st, s, roomId) == roomId \in DOMAIN st.rooms /\ s \in st.users

\* Line 531: the room exists, the requester has a profile and is the host.
mayStart(st, s, roomId) ==
  /\ roomId \in DOMAIN st.rooms
  /\ s \in st.users
  /\ s = st.rooms[roomId].creatorId

\* socket.on("game:start") (lines 528-573)
gameStart(st, s, roomId, rnd, coin) ==
  IF ~mayStart(st, s, roomId) THEN st
  ELSE
    LET room == st.rooms[roomId]
    IN IF room.gameType = "hangman" /\ Len(room.players) # 2
       THEN Emit(st, "game:message", ToSocket(s), "need_two", NoWord)
       ELSE IF room.gameType = "doodle" /\ Len(room.players) < 2
       THEN Emit(st, "game:message", ToSocket(s), "need_two", NoWord)
       ELSE
         LET s1 == DropHandles([st EXCEPT !.rooms[roomId].inProgress = TRUE], roomId)
             s2 == IF room.gameType = "doodle"
                   THEN startNewDoodleRound(
                          [s1 EXCEPT !.gs = Put(@, roomId, newDoodleState(room))],
                          roomId, rnd)
                   ELSE IF room.gameType = "hangman"
                   THEN startNewHangmanRound(
                          [s1 EXCEPT !.gs = Put(@, roomId, newHangmanState(room))],
                          roomId, rnd, coin)
                   ELSE s1
         IN EmitRoomsList(s2, ToAll)

GameStart(s, roomId, rnd, coin) ==
  /\ ~crashed
  /\ s \in users
  /\ Commit(gameStart(Cur, s, roomId, rnd, coin))
  /\ UNCHANGED <<socketCount, roomsCreated>>

\* Mutant of evictAll: the connections stay in the room's audience.
evictAll_NoOne(st, roomId) == st

\* Lines 581-586: every connection of the room's audience leaves it.
evictAll(st, roomId) == [st EXCEPT !.aud[roomId] = {}]

\* socket.on("game:stop") (lines 575-590)
gameStop(st, s, roomId) ==
  IF roomId \notin DOMAIN st.rooms \/ s \notin st.users
     \/ s # st.rooms[roomId].creatorId
  THEN st
  ELSE
    LET s1 == Emit(st, "game:terminated", ToRoom(roomId), "host_terminated", NoWord)
        s2 == evictAll(s1, roomId)
    IN EmitRoomsList(DeleteRoom(s2, roomId), ToAll)

GameStop(s, roomId) ==
  /\ ~crashed
  /\ s \in users
  /\ Commit(gameStop(Cur, s, roomId))
  /\ UNCHANGED <<socketCount, roomsCreated>>

\* socket.on("join room") (lines 225-240).  roomName is the id of a game room
\* (ids start with "game-") or NoRoom, standing for the name of a chat room:
\* joining a chat room first leaves every room the connection is in, the
\* audiences of game rooms included.
joinRoom(st, s, roomName) ==
  IF roomName = NoRoom
  THEN [st EXCEPT !.aud = [r \in DOMAIN @ |-> @[r] \ {s}]]
  ELSE socketJoin(st, s, roomName)

JoinRoom(s, roomName) ==
  /\ ~crashed
  /\ s \in users
  /\ Commit(joinRoom(Cur, s, roomName))
  /\ UNCHANGED <<socketCount, roomsCreated>>

\* socket.on("chat message") (lines 242-293); rateLimited stands for the
\* sender having sent RATE_LIMIT_COUNT messages in the last seconds.
chatMessage(st, s, room, text, rateLimited) ==
  IF s \notin st.users THEN st
  ELSE IF Len(trim(text)) = 0 \/ Len(text) > 500 THEN st
  ELSE IF rateLimited
  THEN Emit(st, "rate limit", ToSocket(s), "too_quickly", NoWord)
  ELSE IF /\ room \in DOMAIN st.gs
          /\ st.gs[room].isRoundActive
          /\ room \in DOMAIN st.rooms
          /\ st.rooms[room].gameType = "doodle"
  THEN handleDoodleGuess(st, s, room, text)
  ELSE Emit(st, "chat message", ToRoom(room), "chat", NoWord)

ChatMessage(s, room, text, rateLimited) ==
  /\ ~crashed
  /\ s \in users
  /\ Commit(chatMessage(Cur, s, room, text, rateLimited))
  /\ UNCHANGED <<socketCount, roomsCreated>>

\* No score exceeds n: the guard that keeps the scores explored finite.
ScoresAtMost(n) ==
  \A r \in DOMAIN gameStates :
    "scores" \in DOMAIN gameStates[r] =>
      \A id \in DOMAIN gameStates[r].scores : gameStates[r].scores[id] <= n

\* gameState.drawer is an object: reading gameState.drawer.id throws
\* TypeError when the round state has no drawer.
hasDrawer(g) == "drawer" \in DOMAIN g /\ g.drawer # NoSocket

\* Mutant of gameDraw: the stroke is put at the front of the log.
gameDraw_Prepend(st, s, room, data) ==
  IF room \notin DOMAIN st.gs \/ ~st.gs[room].isRoundActive THEN st
  ELSE IF ~hasDrawer(st.gs[room]) THEN [st EXCEPT !.crashed = TRUE]
  ELSE IF s = st.gs[room].drawer
  THEN Emit([st EXCEPT !.gs[room].drawingHistory = <<data>> \o @],
            "game:draw", ToOthers(room), data, NoWord)
  ELSE st

\* socket.on("game:draw") (lines 592-602); the event carries the stroke.
gameDraw(st, s, room, data) ==
  IF room \notin DOMAIN st.gs \/ ~st.gs[room].isRoundActive THEN st
  ELSE IF ~hasDrawer(st.gs[room]) THEN [st EXCEPT !.crashed = TRUE]
  ELSE IF s = st.gs[room].drawer
  THEN Emit([st EXCEPT !.gs[room].drawingHistory = Append(@, data)],
            "game:draw", ToOthers(room), data, NoWord)
  ELSE st

GameDraw(s, room, data) ==
  /\ ~crashed
  /\ s \in users
  /\ room \in DOMAIN gameStates /\ "drawingHistory" \in DOMAIN gameStates[room]
        => Len(gameStates[room].drawingHistory) < MaxStrokes
  /\ Commit(gameDraw(Cur, s, room, data))
  /\ UNCHANGED <<socketCount, roomsCreated>>

\* socket.on("game:clear_canvas") (lines 604-610)
gameClearCanvas(st, s, room) ==
  IF room \notin DOMAIN st.gs THEN st
  ELSE IF ~hasDrawer(st.gs[room]) THEN [st EXCEPT !.crashed = TRUE]
  ELSE IF s = st.gs[room].drawer
  THEN Emit([st EXCEPT !.gs[room].drawingHistory = <<>>],
            "game:clear_canvas", ToRoom(room), "", NoWord)
  ELSE st

GameClearCanvas(s, room) ==
  /\ ~crashed
  /\ s \in users
  /\ Commit(gameClearCanvas(Cur, s, room))
  /\ UNCHANGED <<socketCount, roomsCreated>>

\* Mutant of isCurrentTurn: a guess is taken from anyone.
isCurrentTurn_Always(g, socketId) == TRUE

\* socket.id !== gameState.currentPlayerTurn (line 622), negated
isCurrentTurn(g, socketId) == socketId = g.currentPlayerTurn

\* socket.on("hangman:guess") (lines 612-627)
hangmanGuess(st, s, room, letter) ==
  IF \/ s \notin st.users
     \/ room \notin DOMAIN st.gs
     \/ ~st.gs[room].isRoundActive
     \/ st.gs[room].gameType # "hangman"
  THEN st
  ELSE IF ~isCurrentTurn(st.gs[room], s)
  THEN Emit(st, "rate limit", ToSocket(s), "not_your_turn", NoWord)
  ELSE handleHangmanGuess(st, s, room, letter)

HangmanGuess(s, room, letter) ==
  /\ ~crashed
  /\ s \in users
  /\ Commit(hangmanGuess(Cur, s, room, letter))
  /\ UNCHANGED <<socketCount, roomsCreated>>

\* Mutant of leaveEveryRoom: no room is left.
leaveEveryRoom_None(st, s, roomId, rnd) == st

\* Mutant of leaveEveryRoom: only the first room of the loop is left.
leaveEveryRoom_FirstOnly(st, s, roomId, rnd) ==
  handlePlayerLeave(st, s, roomId, rnd[roomId])

\* for (const roomId in activeGameRooms) handlePlayerLeave(socket.id, roomId):
\* the rooms in creation order; rnd[roomId] is the draw of a round started in
\* roomId.
RECURSIVE leaveEveryRoom(_, _, _, _)
leaveEveryRoom(st, s, roomId, rnd) ==
  IF roomId > Len(rnd) THEN st
  ELSE leaveEveryRoom(handlePlayerLeave(st, s, roomId, rnd[roomId]), s, roomId + 1, rnd)

\* socket.on("disconnect") (lines 629-686).  socket.io has taken the
\* connection out of every room before the handler runs.
disconnect(st, s, rnd) ==
  LET s0 == [st EXCEPT !.aud = [r \in DOMAIN @ |-> @[r] \ {s}]]
      s1 == IF s \in st.users THEN leaveEveryRoom(s0, s, 1, rnd) ELSE s0
      s2 == [s1 EXCEPT !.users = @ \ {s}]
  IN Emit(s2, "user list", ToAll, "", NoWord)

Disconnect(s, rnd) ==
  /\ ~crashed
  /\ s \in users
  /\ Commit(disconnect(Cur, s, rnd))
  /\ UNCHANGED <<socketCount, roomsCreated>>

\* A pending timer fires: it leaves the bag and its callback runs.
Fired(t) == [Cur EXCEPT !.timers = @ (-) SetToBag({t})]

\* the round deadline timer of startNewDoodleRound (lines 780-783)
RoundTimerFires(t) ==
  /\ ~crashed
  /\ t.kind = "roundEnd"
  /\ Commit(roundTimeUp(Fired(t), t))
  /\ UNCHANGED <<socketCount, roomsCreated>>

\* setTimeout(() => startNewDoodleRound(room), 3000) (lines 719, 782)
NextDoodleRoundFires(t, rnd) ==
  /\ ~crashed
  /\ t.kind = "nextDoodle"
  /\ Commit(startNewDoodleRound(Fired(t), t.room, rnd))
  /\ UNCHANGED <<socketCount, roomsCreated>>

\* the turn timer of setHangmanTurnTimer (lines 931-934)
TurnTimerFires(t) ==
  /\ ~crashed
  /\ t.kind = "turn"
  /\ Commit(handleHangmanTimeout(Fired(t), t.room))
  /\ UNCHANGED <<socketCount, roomsCreated>>

\* setTimeout(() => startNewHangmanRound(room), 5000) (lines 906, 967)
NextHangmanRoundFires(t, rnd, coin) ==
  /\ ~crashed
  /\ t.kind = "nextHangman"
  /\ Commit(startNewHangmanRound(Fired(t), t.room, rnd, coin))
  /\ UNCHANGED <<socketCount, roomsCreated>>

\* ------------------------------------- src/unnamed/part_000: handlers
\* The round state made by room:create_game (lines 753-763); roundTimer is
\* whether the timer of the handle is pending.
p0_newGameState ==
  [drawer |-> NoSocket, word |-> NoWord, scores |-> <<>>, isRoundActive |-> FALSE,
   players |-> <<>>, currentPlayerIndex |-> -1, roundTimer |-> FALSE,
   guesserIds |-> {}]

\* getRoomIdFromSocket (lines 492-495): the first socket.io room of the
\* connection other than its own id
getRoomIdFromSocket(st, s) == IF s \in st.aud THEN P0Room ELSE NoRoom

\* terminateGameRoom (lines 498-516)
terminateGameRoom(st, roomId) ==
  [st EXCEPT !.gs = Delete(@, roomId), !.rooms = Delete(@, roomId)]

\* Array.prototype.splice(index, 1) for any index: nothing goes past the end
p0_splice(seq, index) == IF index < Len(seq) THEN splice1(seq, index) ELSE seq

\* Bound on the self-retries of startNewRound followed in the model.
P0MaxRetries == 2 * MaxSockets + 2

\* startNewRound (part_000 lines 519-599); rnd is the Math.random() draw,
\* depth counts the self-retries.
RECURSIVE p0_startNewRound(_, _, _, _)
p0_startNewRound(st, roomId, rnd, depth) ==
  IF \/ roomId \notin DOMAIN st.rooms
     \/ roomId \notin DOMAIN st.gs
     \/ Len(st.rooms[roomId].players) = 0
  THEN terminateGameRoom(st, roomId)
  ELSE
    LET room == st.rooms[roomId]
        g0 == st.gs[roomId]
        nextDrawerIndex == (g0.currentPlayerIndex + 1) % Len(g0.players)
        g1 == [g0 EXCEPT !.roundTimer = FALSE,
                         !.guesserIds = {},
                         !.currentPlayerIndex = nextDrawerIndex]
        drawerId == g0.players[nextDrawerIndex + 1]
    IN IF drawerId \notin st.users
       THEN IF Len(room.players) > 1
            THEN
              LET players2 == p0_splice(room.players, nextDrawerIndex)
                  s1 == [st EXCEPT !.rooms[roomId].players = players2,
                                   !.gs[roomId] = g1]
              IN IF Len(players2) = 0 THEN terminateGameRoom(s1, roomId)
                 ELSE IF depth >= P0MaxRetries THEN [s1 EXCEPT !.crashed = TRUE]
                 ELSE p0_startNewRound(
                        [s1 EXCEPT !.gs[roomId].currentPlayerIndex =
                                     nextDrawerIndex % Len(players2)],
                        roomId, rnd, depth + 1)
            ELSE terminateGameRoom(st, roomId)
       ELSE
         LET word == GAME_WORDS[(rnd % Len(GAME_WORDS)) + 1]
         IN [st EXCEPT !.gs[roomId] = [g1 EXCEPT !.drawer = drawerId,
                                                 !.word = word,
                                                 !.isRoundActive = TRUE,
                                                 !.roundTimer = TRUE],
                       !.awards = [s \in Sockets |-> 0]]

\* socket.on("user:set_profile") (lines 606-611)
p0_setProfile(st, s) == [st EXCEPT !.users = @ \cup {s}]

\* socket.on("room:create_game") (lines 738-768)
p0_createGame(st, s) ==
  IF s \notin st.users THEN st
  ELSE [st EXCEPT !.rooms = Put(@, P0Room, [creatorId |-> s, players |-> <<>>]),
                  !.gs = Put(@, P0Room, p0_newGameState),
                  !.created = TRUE]

\* socket.on("room:join") (lines 774-850); with one game room there is no
\* previous room to leave
p0_join(st, s, roomId) ==
  IF s \notin st.users \/ roomId \notin DOMAIN st.rooms THEN st
  ELSE
    LET room == st.rooms[roomId]
        players == IF s \in Range(room.players) THEN room.players
                   ELSE Append(room.players, s)
        scores == st.gs[roomId].scores
    IN [st EXCEPT !.aud = @ \cup {s},
                  !.rooms[roomId].players = players,
                  !.gs[roomId].scores =
                    IF ScoreOf(scores, s) = 0 THEN Put(scores, s, 0) ELSE scores]

\* The reassignment of the creator when the creator has gone (lines 886-903,
\* 1063-1079)
p0_reassignCreator(st, s, roomId) ==
  IF roomId \notin DOMAIN st.rooms \/ st.rooms[roomId].creatorId # s THEN st
  ELSE IF Len(st.rooms[roomId].players) > 0
  THEN [st EXCEPT !.rooms[roomId].creatorId = st.rooms[roomId].players[1]]
  ELSE terminateGameRoom(st, roomId)

\* socket.on("room:leave") (lines 852-914)
p0_leave(st, s, roomId, rnd) ==
  IF s \notin st.users THEN st
  ELSE
    LET s0 == [st EXCEPT !.aud = @ \ {s}]
    IN IF roomId \notin DOMAIN s0.rooms THEN s0
       ELSE
         LET s1 == [s0 EXCEPT !.rooms[roomId].players = filterNotIn(@, {s})]
             s2 == IF roomId \in DOMAIN s1.gs /\ s1.gs[roomId].drawer = s
                   THEN p0_startNewRound(s1, roomId, rnd, 0)
                   ELSE s1
         IN \* line 882 reads activeGameRooms[roomId].players of a room that
            \* startNewRound may have terminated: TypeError
            IF roomId \notin DOMAIN s2.rooms THEN [s2 EXCEPT !.crashed = TRUE]
            ELSE IF Len(s2.rooms[roomId].players) = 0
            THEN terminateGameRoom(s2, roomId)
            ELSE p0_reassignCreator(s2, s, roomId)

\* socket.on("game:start") (lines 917-962)
p0_gameStart(st, s, rnd) ==
  LET roomId == getRoomIdFromSocket(st, s)
  IN IF roomId = NoRoom \/ roomId \notin DOMAIN st.rooms \/ roomId \notin DOMAIN st.gs
     THEN st
     ELSE IF st.rooms[roomId].creatorId # s THEN st
     ELSE IF Len(st.rooms[roomId].players) < 2 THEN st
     ELSE IF st.gs[roomId].isRoundActive THEN st
     ELSE
       LET players == st.rooms[roomId].players
           g0 == st.gs[roomId]
           g1 == [g0 EXCEPT !.scores = [x \in DOMAIN @ \cup Range(players) |->
                                          IF x \in Range(players) THEN 0 ELSE @[x]],
                            !.players = players,
                            !.currentPlayerIndex = -1]
       IN p0_startNewRound([st EXCEPT !.gs[roomId] = g1], roomId, rnd, 0)

\* socket.on("game:stop_game") (lines 964-996)
p0_gameStop(st, s) ==
  LET roomId == getRoomIdFromSocket(st, s)
  IN IF roomId = NoRoom \/ roomId \notin DOMAIN st.rooms \/ roomId \notin DOMAIN st.gs
     THEN st
     ELSE IF st.rooms[roomId].creatorId # s THEN st
     ELSE terminateGameRoom(st, roomId)

\* Mutant of hasGuessed: nobody is taken to have guessed.
hasGuessed_Never(g, s) == FALSE

\* gameState.guesserIds.has(socket.id) (line 654)
hasGuessed(g, s) == s \in g.guesserIds

\* socket.on("chat:message") (lines 618-711)
p0_chatMessage(st, s, msg, rnd) ==
  LET roomId == getRoomIdFromSocket(st, s)
  IN IF s \notin st.users THEN st
     ELSE IF roomId = NoRoom \/ roomId \notin DOMAIN st.gs THEN st
     ELSE
       LET g0 == st.gs[roomId]
       IN IF ~g0.isRoundActive \/ g0.drawer = s THEN st
          ELSE IF trim(toLowerCase(msg)) # trim(toLowerCase(Chars(g0.word))) THEN st
          ELSE IF hasGuessed(g0, s) THEN st
          ELSE
            LET sc1 == Put(g0.scores, s, ScoreOf(g0.scores, s) + GUESS_SCORE)
                sc2 == Put(sc1, g0.drawer, ScoreOf(sc1, g0.drawer) + DRAW_SCORE_PER_GUESSER)
                g1 == [g0 EXCEPT !.scores = sc2, !.guesserIds = @ \cup {s}]
                s1 == [st EXCEPT !.gs[roomId] = g1, !.awards[s] = @ + 1]
                playersInRoom == Len(st.rooms[roomId].players)
            IN IF Cardinality(g1.guesserIds) >= playersInRoom - 1
               THEN p0_startNewRound(s1, roomId, rnd, 0)
               ELSE s1

\* socket.on("disconnect") (lines 1028-1099); socket.io has taken the
\* connection out of its rooms.  The handler keeps its reference to the
\* room object, so a room that startNewRound terminated is not read anew.
p0_disconnect(st, s, rnd) ==
  LET s0 == [st EXCEPT !.aud = @ \ {s}, !.gone = @ \cup {s}]
      roomId == P0Room
  IN IF s \notin st.users THEN s0
     ELSE
       LET s1 == IF roomId \in DOMAIN s0.rooms /\ s \in Range(s0.rooms[roomId].players)
                 THEN
                   LET a == [s0 EXCEPT !.rooms[roomId].players = filterNotIn(@, {s})]
                       b == IF roomId \in DOMAIN a.gs /\ a.gs[roomId].drawer = s
                            THEN p0_startNewRound(a, roomId, rnd, 0)
                            ELSE a
                       c == p0_reassignCreator(b, s, roomId)
                   IN IF roomId \in DOMAIN c.rooms /\ Len(c.rooms[roomId].players) = 0
                      THEN terminateGameRoom(c, roomId)
                      ELSE c
                 ELSE s0
       IN [s1 EXCEPT !.users = @ \ {s}]

\* The callback of the round timer (lines 576-583)
p0_roundTimeUp(st, roomId, rnd) ==
  p0_startNewRound([st EXCEPT !.gs[roomId].roundTimer = FALSE], roomId, rnd, 0)

\* Texts a client may send in the part_000 server.
P0Texts == {Chars(GAME_WORDS[i]) : i \in 1..Len(GAME_WORDS)} \cup {<<"A", "p", "p", "l", "e", " ">>, <<"h", "i">>}

\* A handler of the part_000 server has run; the other server stands still.
P0Commit(res) ==
  /\ ~rev0.crashed
  /\ rev0' = res
  /\ UNCHANGED <<socketCount, users, activeGameRooms, gameStates, roomsCreated,
                 timers, audience, emitted, crashed, hist, rev1>>

P0SetProfile(s) == s \notin rev0.gone /\ P0Commit(p0_setProfile(rev0, s))

P0CreateGame(s) == s \notin rev0.gone /\ ~rev0.created /\ P0Commit(p0_createGame(rev0, s))

P0Join(s) == s \notin rev0.gone /\ P0Commit(p0_join(rev0, s, P0Room))

P0Leave(s, rnd) == s \notin rev0.gone /\ P0Commit(p0_leave(rev0, s, P0Room, rnd))

P0GameStart(s, rnd) == s \notin rev0.gone /\ P0Commit(p0_gameStart(rev0, s, rnd))

P0GameStop(s) == s \notin rev0.gone /\ P0Commit(p0_gameStop(rev0, s))

P0ChatMessage(s, msg, rnd) ==
  s \notin rev0.gone /\ P0Commit(p0_chatMessage(rev0, s, msg, rnd))

P0Disconnect(s, rnd) == s \notin rev0.gone /\ P0Commit(p0_disconnect(rev0, s, rnd))

P0RoundTimerFires(rnd) ==
  /\ P0Room \in DOMAIN rev0.gs
  /\ rev0.gs[P0Room].roundTimer
  /\ P0Commit(p0_roundTimeUp(rev0, P0Room, rnd))

\* No score of the part_000 room is above n.
P0ScoresAtMost(n) ==
  P0Room \in DOMAIN rev0.gs =>
    \A x \in DOMAIN rev0.gs[P0Room].scores : rev0.gs[P0Room].scores[x] <= n

\* The part_000 server: profiles, one game room, joins, leaves, starts,
\* stops, guesses, disconnects and the round timer.  Requests that the
\* handler drops or only relays are left out; the first round of a game
\* draws its word, the later ones take the first.
NextGuessers ==
  \/ \E s \in Sockets : s \notin rev0.users /\ P0SetProfile(s)
  \/ \E s \in Sockets : s \in rev0.users /\ P0CreateGame(s)
  \/ \E s \in Sockets : s \in rev0.users /\ P0Join(s) /\ rev0' # rev0
  \/ \E s \in Sockets : s \in rev0.users /\ P0Leave(s, 0) /\ rev0' # rev0
  \/ \E s \in Sockets, rnd \in Draws : s \in rev0.aud /\ P0GameStart(s, rnd)
  \/ \E s \in Sockets : s \in rev0.aud /\ P0GameStop(s)
  \/ \E s \in Sockets, msg \in P0Texts :
       /\ s \in rev0.aud
       /\ P0ChatMessage(s, msg, 0)
       /\ rev0' # rev0
       /\ P0ScoresAtMost(MaxScore * GUESS_SCORE)'
  \/ \E s \in Sockets : s \in rev0.users /\ P0Disconnect(s, 0)
  \/ P0RoundTimerFires(0)

SpecGuessers == Init /\ [][NextGuessers]_vars

\* ---------------------------- src/unnamed/part_001, lines 1-806: handlers
\* The round state built at lines 286-295, 261-270 and 577-586; roundTimer
\* is whether the timer of the handle is pending.
p1_newGameState(players) ==
  [drawer |-> NoSocket, word |-> NoWord, isRoundActive |-> FALSE, scores |-> <<>>,
   players |-> players, roundTimer |-> FALSE]

\* resetGameState (lines 255-276)
resetGameState(st, roomId) ==
  IF roomId \notin DOMAIN st.gs THEN st
  ELSE [st EXCEPT !.gs[roomId] =
          p1_newGameState(IF roomId \in DOMAIN st.rooms
                          THEN st.rooms[roomId].players ELSE <<>>)]

\* startNewRound (part_001 lines 278-383); rnd is the Math.random() draw.
\* drawerId is NoSocket when gameState.players is empty.
\* The self-retry of line 325 runs on the state it was called with: nothing
\* it reads has changed, so it retries for ever and the call stack overflows.
p1_startNewRound(st, roomId, rnd) ==
  IF roomId \notin DOMAIN st.rooms THEN st
  ELSE
    LET s1 == IF roomId \in DOMAIN st.gs THEN st
              ELSE [st EXCEPT !.gs = Put(@, roomId,
                                         p1_newGameState(st.rooms[roomId].players))]
        s2 == [s1 EXCEPT !.rooms[roomId].players = filterNotIn(@, Sockets \ st.users)]
        players == s2.rooms[roomId].players
        g0 == s2.gs[roomId]
    IN IF Len(players) < 2
       THEN [s2 EXCEPT !.gs[roomId].isRoundActive = FALSE]
       ELSE
         LET currentDrawerIndex ==
               IF g0.drawer # NoSocket THEN findIndex(g0.players, g0.drawer) ELSE -1
             drawerId ==
               IF Len(g0.players) = 0 THEN NoSocket
               ELSE g0.players[((currentDrawerIndex + 1) % Len(g0.players)) + 1]
         IN IF drawerId \notin s2.users
            THEN [s2 EXCEPT !.crashed = TRUE]
            ELSE
              LET word == GAME_WORDS[(rnd % Len(GAME_WORDS)) + 1]
                  scores == [x \in DOMAIN g0.scores \cup Range(players) |->
                               ScoreOf(g0.scores, x)]
              IN [s2 EXCEPT !.gs[roomId] = [g0 EXCEPT !.drawer = drawerId,
                                                      !.word = word,
                                                      !.isRoundActive = TRUE,
                                                      !.scores = scores,
                                                      !.roundTimer = TRUE]]

\* socket.on("user:setProfile") (lines 390-416)
p1_setProfile(st, s) ==
  [st EXCEPT !.users = @ \cup {s}, !.roomOf = Put(@, s, P1Global)]

\* socket.on("game:createRoom") (lines 621-643); the creator joins by a
\* room:join of its own
p1_createRoom(st, s) ==
  IF s \notin st.users THEN st
  ELSE [st EXCEPT !.rooms = Put(@, P1Room, [creatorId |-> s, players |-> <<>>]),
                  !.created = TRUE]

\* socket.on("room:join") (lines 500-606)
p1_join(st, s, roomId, rnd) ==
  IF s \notin st.users THEN st
  ELSE
    LET currentRoomId == st.roomOf[s]
    IN IF currentRoomId = roomId THEN st
       ELSE
         LET s1 == IF currentRoomId \in DOMAIN st.rooms
                   THEN
                     LET a == [st EXCEPT !.rooms[currentRoomId].players =
                                           filterNotIn(@, {s})]
                     IN IF currentRoomId \in DOMAIN a.gs
                           /\ a.gs[currentRoomId].drawer = s
                        THEN p1_startNewRound(a, currentRoomId, rnd)
                        ELSE a
                   ELSE st
             s2 == [s1 EXCEPT !.roomOf[s] = roomId]
         IN IF s1.crashed THEN s1
            ELSE IF roomId \notin DOMAIN s2.rooms THEN s2
            ELSE
              LET s3 == IF s \in Range(s2.rooms[roomId].players) THEN s2
                        ELSE [s2 EXCEPT !.rooms[roomId].players = Append(@, s)]
              IN IF roomId \in DOMAIN s3.gs THEN s3
                 ELSE [s3 EXCEPT !.gs = Put(@, roomId,
                                            p1_newGameState(s3.rooms[roomId].players))]

\* socket.on("game:start") (lines 645-665)
p1_gameStart(st, s, roomId, rnd) ==
  IF s \notin st.users \/ roomId \notin DOMAIN st.rooms THEN st
  ELSE IF st.rooms[roomId].creatorId # s THEN st
  ELSE IF Len(st.rooms[roomId].players) < 2 THEN st
  ELSE IF roomId \in DOMAIN st.gs /\ st.gs[roomId].isRoundActive THEN st
  ELSE p1_startNewRound(st, roomId, rnd)

\* socket.on("game:end") (lines 667-685)
p1_gameEnd(st, s, roomId) ==
  IF s \notin st.users \/ roomId \notin DOMAIN st.rooms THEN st
  ELSE IF st.rooms[roomId].creatorId # s THEN st
  ELSE resetGameState(st, roomId)

\* socket.on("chat:message") (lines 419-478)
p1_chatMessage(st, s, msg, rnd) ==
  IF s \notin st.users THEN st
  ELSE
    LET roomId == st.roomOf[s]
    IN IF roomId \notin DOMAIN st.gs THEN st
       ELSE
         LET g0 == st.gs[roomId]
         IN IF ~g0.isRoundActive \/ g0.drawer = s THEN st
            ELSE IF trim(toLowerCase(msg)) # toLowerCase(Chars(g0.word)) THEN st
            ELSE
              LET sc1 == Put(g0.scores, s, ScoreOf(g0.scores, s) + GUESS_SCORE)
                  guessersCount == Cardinality(DOMAIN sc1 \ {g0.drawer})
                  sc2 == Put(sc1, g0.drawer,
                             ScoreOf(sc1, g0.drawer)
                               + guessersCount * DRAW_SCORE_PER_GUESSER)
              IN p1_startNewRound([st EXCEPT !.gs[roomId].scores = sc2], roomId, rnd)

\* socket.on("disconnect") (lines 749-798)
p1_disconnect(st, s, rnd) ==
  IF s \notin st.users THEN [st EXCEPT !.gone = @ \cup {s}]
  ELSE
    LET roomId == st.roomOf[s]
        s0 == [st EXCEPT !.users = @ \ {s}, !.roomOf = Delete(@, s),
                         !.gone = @ \cup {s}]
    IN IF roomId \notin DOMAIN s0.rooms THEN s0
       ELSE
         LET s1 == [s0 EXCEPT !.rooms[roomId].players = filterNotIn(@, {s})]
             s2 == IF roomId \in DOMAIN s1.gs /\ s1.gs[roomId].isRoundActive
                      /\ s1.gs[roomId].drawer = s
                   THEN p1_startNewRound(s1, roomId, rnd)
                   ELSE s1
         IN IF s2.crashed THEN s2
            ELSE IF Len(s2.rooms[roomId].players) = 0
            THEN [s2 EXCEPT !.rooms = Delete(@, roomId), !.gs = Delete(@, roomId)]
            ELSE s2

\* The callback of the round timer (lines 349-352)
p1_roundTimeUp(st, roomId, rnd) ==
  p1_startNewRound([st EXCEPT !.gs[roomId].roundTimer = FALSE], roomId, rnd)

\* A handler of the part_001 server has run; the other servers stand still.
P1Commit(res) ==
  /\ ~rev1.crashed
  /\ rev1' = res
  /\ rev1' # rev1
  /\ UNCHANGED <<socketCount, users, activeGameRooms, gameStates, roomsCreated,
                 timers, audience, emitted, crashed, hist, rev0>>

P1SetProfile(s) == s \notin rev1.gone /\ P1Commit(p1_setProfile(rev1, s))

P1CreateRoom(s) ==
  s \notin rev1.gone /\ ~rev1.created /\ P1Commit(p1_createRoom(rev1, s))

P1Join(s, roomId, rnd) == s \notin rev1.gone /\ P1Commit(p1_join(rev1, s, roomId, rnd))

P1GameStart(s, rnd) == s \notin rev1.gone /\ P1Commit(p1_gameStart(rev1, s, P1Room, rnd))

P1GameEnd(s) == s \notin rev1.gone /\ P1Commit(p1_gameEnd(rev1, s, P1Room))

P1ChatMessage(s, msg, rnd) ==
  s \notin rev1.gone /\ P1Commit(p1_chatMessage(rev1, s, msg, rnd))

P1Disconnect(s, rnd) == s \notin rev1.gone /\ P1Commit(p1_disconnect(rev1, s, rnd))

P1RoundTimerFires(rnd) ==
  /\ P1Room \in DOMAIN rev1.gs
  /\ rev1.gs[P1Room].roundTimer
  /\ P1Commit(p1_roundTimeUp(rev1, P1Room, rnd))

\* No score of the part_001 room is above n.
P1ScoresAtMost(n) ==
  P1Room \in DOMAIN rev1.gs =>
    \A x \in DOMAIN rev1.gs[P1Room].scores : rev1.gs[P1Room].scores[x] <= n

\* The part_001 server (lines 1-806): profiles, one game room, joins of the
\* game room and of "global", starts, ends, guesses, disconnects and the
\* round timer.  Requests that change nothing are left out; a profile is
\* set once and a guess is made while every score is 0.
NextEarly ==
  \/ \E s \in Sockets : s \notin rev1.users /\ P1SetProfile(s)
  \/ \E s \in Sockets : P1CreateRoom(s)
  \/ \E s \in Sockets, roomId \in {P1Global, P1Room} : P1Join(s, roomId, 0)
  \/ \E s \in Sockets, rnd \in Draws : P1GameStart(s, rnd)
  \/ \E s \in Sockets : P1GameEnd(s)
  \/ \E s \in Sockets, msg \in P0Texts :
       P1ScoresAtMost(0) /\ P1ChatMessage(s, msg, 0)
  \/ \E s \in Sockets : P1Disconnect(s, 0)
  \/ P1RoundTimerFires(0)

SpecEarly == Init /\ [][NextEarly]_vars

\* Guards of Next.  A request that the handler drops, answers with a notice
\* to its sender or only relays leaves the state as it is, and a draw that
\* the handler does not read makes no difference: Next leaves such requests
\* and draws out.  The handlers above keep those paths.
IsDoodleRoom(r) ==
  r \in DOMAIN activeGameRooms /\ activeGameRooms[r].gameType = "doodle"

IsHangmanRoom(r) ==
  r \in DOMAIN activeGameRooms /\ activeGameRooms[r].gameType = "hangman"

\* s is on the member list of r (lines 139-141).
IsMember(s, r) ==
  r \in DOMAIN activeGameRooms /\ s \in Range(activeGameRooms[r].players)

\* The request comes from the host of an existing room (lines 531, 578).
FromHost(s, r) ==
  r \in DOMAIN activeGameRooms /\ s = activeGameRooms[r].creatorId

\* Room r is open to new members (lines 483-487).
IsOpen(r) == r \in DOMAIN activeGameRooms /\ ~activeGameRooms[r].inProgress

\* The text is a guess of the word of r's round by someone who is not drawing
\* (lines 262-273, 691, 695).
IsGuess(s, r, text) ==
  /\ r \in DOMAIN gameStates
  /\ IsDoodleRoom(r)
  /\ gameStates[r].isRoundActive
  /\ s # gameStates[r].drawer
  /\ toLowerCase(trim(text)) = toLowerCase(Chars(gameStates[r].word))

\* The departure of s from r starts a new doodle round (lines 172-180).
ReadsDraw(s, r) ==
  /\ r \in DOMAIN gameStates
  /\ IsDoodleRoom(r)
  /\ gameStates[r].isRoundActive
  /\ gameStates[r].drawer = s

\* r has an active hangman round (lines 615-621).
IsHangmanRound(r) ==
  /\ r \in DOMAIN gameStates
  /\ gameStates[r].gameType = "hangman"
  /\ gameStates[r].isRoundActive

Next ==
  \/ \E s \in Sockets : s \notin users /\ UserInfo(s, TRUE)
  \/ \E s \in Sockets, ty \in GameTypes :
       roomsCreated < MaxRooms /\ GameCreate(s, "", ty)
  \/ \E s \in Sockets, r \in RoomIds : IsOpen(r) /\ GameJoin(s, r, "")
  \/ \E s \in Sockets, r \in RoomIds, rnd \in Draws :
       /\ s \notin audience[r] => IsMember(s, r)
       /\ rnd # 0 => ReadsDraw(s, r)
       /\ GameLeave(s, r, rnd)
  \/ \E s \in Sockets, r \in RoomIds, rnd \in Draws, coin \in 0..1 :
       /\ FromHost(s, r)
       /\ coin # 0 => IsHangmanRoom(r)
       /\ GameStart(s, r, rnd, coin)
  \/ \E s \in Sockets, r \in RoomIds : FromHost(s, r) /\ GameStop(s, r)
  \/ \E s \in Sockets, r \in RoomIds, text \in Texts :
       /\ IsGuess(s, r, text)
       /\ ChatMessage(s, r, text, FALSE)
       /\ ScoresAtMost(MaxScore)'
  \/ \E s \in Sockets, r \in RoomIds, letter \in Letters :
       IsHangmanRound(r) /\ HangmanGuess(s, r, letter)
  \/ \E s \in Sockets, rnd \in [RoomIds -> Draws] :
       (\A r \in RoomIds : rnd[r] # 0 => ReadsDraw(s, r)) /\ Disconnect(s, rnd)
  \/ \E t \in BagToSet(timers) : RoundTimerFires(t)
  \/ \E t \in BagToSet(timers), rnd \in Draws :
       (rnd # 0 => IsDoodleRoom(t.room)) /\ NextDoodleRoundFires(t, rnd)
  \/ \E t \in BagToSet(timers) : TurnTimerFires(t)
  \/ \E t \in BagToSet(timers), rnd \in Draws, coin \in 0..1 :
       NextHangmanRoundFires(t, rnd, coin)

Spec == Init /\ [][Next]_vars

\* One doodle room with the stroke log: the drawer draws and clears, members
\* guess, leave and disconnect, the host starts the game, the timers fire.
\* Every round takes the first word not yet used.
NextDoodle ==
  \/ \E s \in Sockets : UserInfo(s, TRUE)
  \/ \E s \in Sockets : roomsCreated < MaxRooms /\ GameCreate(s, "", "doodle")
  \/ \E s \in Sockets, r \in RoomIds : GameJoin(s, r, "")
  \/ \E s \in Sockets, r \in RoomIds : GameLeave(s, r, 0)
  \/ \E s \in Sockets, r \in RoomIds : GameStart(s, r, 0, 0)
  \/ \E s \in Sockets, r \in RoomIds, i \in 1..Len(DOODLE_WORDS) :
       ChatMessage(s, r, Chars(DOODLE_WORDS[i]), FALSE) /\ ScoresAtMost(MaxScore)'
  \/ \E s \in Sockets, r \in RoomIds : GameDraw(s, r, "a")
  \/ \E s \in Sockets, r \in RoomIds : GameClearCanvas(s, r)
  \/ \E s \in Sockets : Disconnect(s, [r \in RoomIds |-> 0])
  \/ \E t \in BagToSet(timers) : RoundTimerFires(t)
  \/ \E t \in BagToSet(timers) : NextDoodleRoundFires(t, 0)

SpecDoodle == Init /\ [][NextDoodle]_vars

\* Two rooms side by side, a doodle room without password and a hangman room
\* with one, or two of a kind, which users join, leave, start and disconnect
\* from.
NextRooms ==
  \/ \E s \in Sockets : UserInfo(s, TRUE)
  \/ \E s \in Sockets :
       roomsCreated < MaxRooms + 1 /\ GameCreate(s, "", "doodle")
  \/ \E s \in Sockets :
       roomsCreated < MaxRooms + 1 /\ GameCreate(s, "pw", "hangman")
  \/ \E s \in Sockets, r \in AllRoomIds, pw \in Passwords : GameJoin(s, r, pw)
  \/ \E s \in Sockets, r \in AllRoomIds : GameLeave(s, r, 0)
  \/ \E s \in Sockets, r \in AllRoomIds, coin \in 0..1 : GameStart(s, r, 0, coin)
  \/ \E s \in Sockets : Disconnect(s, [r \in AllRoomIds |-> 0])

SpecRooms == Init /\ [][NextRooms]_vars

\* One doodle room whose audience connections join and leave on their own,
\* beside its members; no guesses and no timer firing.
NextAudience ==
  \/ \E s \in Sockets : UserInfo(s, TRUE)
  \/ \E s \in Sockets : roomsCreated < MaxRooms /\ GameCreate(s, "", "doodle")
  \/ \E s \in Sockets, r \in RoomIds : GameJoin(s, r, "")
  \/ \E s \in Sockets, r \in RoomIds : GameLeave(s, r, 0)
  \/ \E s \in Sockets, r \in RoomIds : GameStart(s, r, 0, 0)
  \/ \E s \in Sockets, r \in RoomIds : GameStop(s, r)
  \/ \E s \in Sockets, r \in RoomIds \cup {NoRoom} : JoinRoom(s, r)
  \/ \E s \in Sockets, r \in RoomIds : ChatMessage(s, r, <<"h", "i">>, FALSE)
  \/ \E s \in Sockets, r \in RoomIds : ChatMessage(s, r, <<"h", "i">>, TRUE)
  \/ \E s \in Sockets : Disconnect(s, [r \in RoomIds |-> 0])

SpecAudience == Init /\ [][NextAudience]_vars

\* One doodle game played from its start to the winning score: the room is
\* started once, every guess is the word of the round, and players
\* disconnect at any time.
NextEndgame ==
  \/ \E s \in Sockets : UserInfo(s, TRUE)
  \/ \E s \in Sockets : roomsCreated < MaxRooms /\ GameCreate(s, "", "doodle")
  \/ \E s \in Sockets, r \in RoomIds : GameJoin(s, r, "")
  \/ \E s \in Sockets, r \in RoomIds :
       /\ r \in DOMAIN activeGameRooms
       /\ ~activeGameRooms[r].inProgress
       /\ GameStart(s, r, 0, 0)
  \/ \E s \in Sockets, r \in RoomIds :
       /\ r \in DOMAIN gameStates
       /\ ChatMessage(s, r, Chars(gameStates[r].word), FALSE)
       /\ ScoresAtMost(WINNING_SCORE + 2)'
  \/ \E s \in Sockets : Disconnect(s, [r \in RoomIds |-> 0])
  \/ \E t \in BagToSet(timers) : NextDoodleRoundFires(t, 0)

SpecEndgame == Init /\ [][NextEndgame]_vars


\* One doodle room whose pending timers all fire in the end: users join, the
\* host starts the game once the room is open, members guess and disconnect
\* (which takes them out of the room by handlePlayerLeave).  Weak fairness
\* of the two timer callbacks stands for "setTimeout callbacks run when due".
NextLive ==
  \/ \E s \in Sockets : s \notin users /\ UserInfo(s, TRUE)
  \/ \E s \in Sockets : roomsCreated < MaxRooms /\ GameCreate(s, "", "doodle")
  \/ \E s \in Sockets, r \in RoomIds : IsOpen(r) /\ GameJoin(s, r, "")
  \/ \E s \in Sockets, r \in RoomIds :
       FromHost(s, r) /\ IsOpen(r) /\ GameStart(s, r, 0, 0)
  \/ \E s \in Sockets, r \in RoomIds, text \in Texts :
       /\ IsGuess(s, r, text)
       /\ ChatMessage(s, r, text, FALSE)
       /\ ScoresAtMost(MaxScore)'
  \/ \E s \in Sockets : Disconnect(s, [r \in RoomIds |-> 0])
  \/ \E t \in BagToSet(timers) : RoundTimerFires(t)
  \/ \E t \in BagToSet(timers) : NextDoodleRoundFires(t, 0)

TimersFire ==
  /\ WF_vars(\E t \in BagToSet(timers) : RoundTimerFires(t))
  /\ WF_vars(\E t \in BagToSet(timers) : NextDoodleRoundFires(t, 0))

SpecLive == Init /\ [][NextLive]_vars /\ TimersFire

\* ================================================================ claims
ActiveDoodle(r) ==
  /\ r \in DOMAIN gameStates
  /\ gameStates[r].gameType = "doodle"
  /\ gameStates[r].isRoundActive

Emitted(text, to) ==
  \E i \in DOMAIN emitted : emitted[i].text = text /\ emitted[i].to = to

\* The step is the firing of a pending timer whose round has been superseded.
StaleTimerFires ==
  \E t \in BagToSet(timers) :
    /\ t.stale
    /\ \/ RoundTimerFires(t)
       \/ \E rnd \in Draws : NextDoodleRoundFires(t, rnd)
       \/ TurnTimerFires(t)
       \/ \E rnd \in Draws, coin \in 0..1 : NextHangmanRoundFires(t, rnd, coin)

\* C1: every room in the directory has a host (creatorId) that is one of its
\* current members.
C1_HostIsMember ==
  \A r \in DOMAIN activeGameRooms :
    activeGameRooms[r].creatorId \in Range(activeGameRooms[r].players)

\* A host has just left a room that survived: a new host was announced.
C1_Witness ==
  \E r \in DOMAIN activeGameRooms :
    /\ Emitted("new_host", ToRoom(r))
    /\ activeGameRooms[r].creatorId \in Range(activeGameRooms[r].players)

\* C2: within a game, a score entry is only ever created for a member of the
\* room: no message from a connection outside the room adds a key to scores.
C2_ScoresOnlyForMembers ==
  [][\A r \in DOMAIN gameStates \cap DOMAIN gameStates' :
       (gameStates[r].gameType = "doodle" /\ r \in DOMAIN activeGameRooms) =>
         \A id \in DOMAIN gameStates'[r].scores \ DOMAIN gameStates[r].scores :
           id \in Range(activeGameRooms[r].players)]_vars

\* C3: while a doodle round is active and its word has not been revealed by
\* a correct guess or by the deadline, no event emitted to the room carries
\* the secret word.
C3_WordOnlyToDrawer ==
  \A r \in DOMAIN gameStates :
    (ActiveDoodle(r) /\ ~hist[r].guessed /\ ~hist[r].timeUp) =>
      \A i \in DOMAIN emitted :
        emitted[i].to = ToRoom(r) => emitted[i].word # gameStates[r].word

\* C4: the firing of a superseded timer changes no room and no round state.
C4_StaleTimerChangesNothing ==
  [][StaleTimerFires => UNCHANGED <<activeGameRooms, gameStates>>]_vars

\* C5: every room has at most one pending round-progress timer.
C5_OnePendingTimerPerRoom ==
  \A r \in DOMAIN activeGameRooms : PendingIn(timers, r) <= 1

\* C6: in every room in progress the turn cursor is a valid index into the
\* round state's player order, and that order holds only current members of
\* the room who are connected.
C6_CursorAndOrderValid ==
  \A r \in DOMAIN activeGameRooms :
    activeGameRooms[r].inProgress =>
      /\ r \in DOMAIN gameStates
      /\ gameStates[r].currentPlayerIndex \in 0..(Len(gameStates[r].players) - 1)
      /\ Range(gameStates[r].players) \subseteq
           Range(activeGameRooms[r].players) \cap users

\* C7: the drawer of an active doodle round is a current member of the room
\* and a connected user.
C7_DrawerIsPresent ==
  \A r \in DOMAIN gameStates :
    ActiveDoodle(r) =>
      /\ r \in DOMAIN activeGameRooms
      /\ gameStates[r].drawer \in Range(activeGameRooms[r].players)
      /\ gameStates[r].drawer \in users

\* The drawer has just left a room that goes on with a new round.
C7_Witness ==
  \E r \in DOMAIN gameStates :
    /\ ActiveDoodle(r)
    /\ Emitted("drawer_left", ToRoom(r))
    /\ gameStates[r].drawer \in Range(activeGameRooms[r].players)

\* C8: once a correct guess has been scored in a round, no score changes
\* until the next round starts.
C8_OneScoredGuessPerRound ==
  [][\A r \in DOMAIN gameStates \cap DOMAIN gameStates' :
       (gameStates[r].gameType = "doodle" /\ hist[r].guessed /\ hist'[r].guessed) =>
         gameStates'[r].scores = gameStates[r].scores]_vars

\* C9: once the deadline timer of a round has fired and announced the word,
\* no score changes until the next round starts.
C9_NoScoreAfterTimeUp ==
  [][\A r \in DOMAIN gameStates \cap DOMAIN gameStates' :
       (gameStates[r].gameType = "doodle" /\ hist[r].timeUp /\ hist'[r].timeUp) =>
         gameStates'[r].scores = gameStates[r].scores]_vars

\* C10: when a round has ended by a correct guess and no member has left
\* since, the round the delayed continuation starts has as drawer the member
\* that follows the previous drawer in membership order, a different member.
C10_NextDrawerRotated ==
  [][\A t \in BagToSet(timers), rnd \in Draws :
       LET r == t.room IN
       (/\ NextDoodleRoundFires(t, rnd)
        /\ ActiveDoodle(r)
        /\ hist[r].guessed
        /\ ~hist[r].changed
        /\ r \in DOMAIN gameStates'
        /\ ~hist'[r].guessed) =>
          LET players == activeGameRooms[r].players
              previous == gameStates[r].drawer
              following == players[((findIndex(players, previous) + 1) % Len(players)) + 1]
          IN /\ gameStates'[r].drawer = following
             /\ gameStates'[r].drawer # previous]_vars

\* The step is socket s leaving room r, of which it is a member, by
\* game:leave or by disconnecting.
LeavesRoom(s, r) ==
  /\ r \in DOMAIN activeGameRooms
  /\ s \in Range(activeGameRooms[r].players)
  /\ r \in DOMAIN activeGameRooms' => s \notin Range(activeGameRooms'[r].players)
  /\ \/ users' = users /\ \E rnd \in Draws : GameLeave(s, r, rnd)
     \/ s \notin users' /\ \E rnd \in [RoomIds -> Draws] : Disconnect(s, rnd)

\* The first room list broadcast after the departure notice of room r in the
\* events `out` does not list r.
ListAfterDepartureOmits(out, r) ==
  \E i \in DOMAIN out :
    /\ out[i].text = "left" /\ out[i].to = ToRoom(r)
    /\ \E j \in (i + 1)..Len(out) :
         /\ out[j].ev = "game:roomsList" /\ out[j].to = ToAll
         /\ r \notin out[j].list
         /\ \A k \in (i + 1)..(j - 1) : out[k].ev # "game:roomsList"

\* Number of events of `out` with the given text and audience.
RECURSIVE CountEvents(_, _, _)
CountEvents(out, text, to) ==
  IF out = <<>> THEN 0
  ELSE (IF Head(out).text = text /\ Head(out).to = to THEN 1 ELSE 0)
         + CountEvents(Tail(out), text, to)

\* `out` holds an event of the given name and audience.
HasEvent(out, ev, to) == \E i \in DOMAIN out : out[i].ev = ev /\ out[i].to = to

\* What the server is left with when member s leaves room r by game:leave
\* (any draw) or by disconnecting (any draws).
Departures(s, r) ==
  {handlePlayerLeave(Cur, s, r, rnd) : rnd \in Draws}
    \cup {disconnect(Cur, s, rnd) : rnd \in [AllRoomIds -> Draws]}

\* The members of room r less s.
Remaining(s, r) ==
  splice1(activeGameRooms[r].players, findIndex(activeGameRooms[r].players, s))

\* C11: when a leave or a disconnect brings a room's membership below 2, the
\* room and its round state are both gone after the step, game in progress
\* or not, and the room list broadcast after the departure omits the room.
C11_TeardownBelowMinimum ==
  \A r \in DOMAIN activeGameRooms :
    \A s \in Range(activeGameRooms[r].players) \cap users :
      Len(Remaining(s, r)) < 2 =>
        \A res \in Departures(s, r) :
          /\ r \notin DOMAIN res.rooms
          /\ r \notin DOMAIN res.gs
          /\ ListAfterDepartureOmits(res.out, r)

\* A departure has just torn down a room whose game was in progress, and the
\* list broadcast omits it.
C11_Witness ==
  \E r \in RoomIds :
    /\ r \notin DOMAIN activeGameRooms
    /\ r \notin DOMAIN gameStates
    /\ ListAfterDepartureOmits(emitted, r)
    /\ HasEvent(emitted, "game:terminated", ToRoom(r))

C13_HostReelection ==
  \A r \in DOMAIN activeGameRooms :
    \A s \in Range(activeGameRooms[r].players) \cap users :
      \A res \in Departures(s, r) :
        r \in DOMAIN res.rooms =>
          IF s = activeGameRooms[r].creatorId
          THEN /\ res.rooms[r].creatorId = Remaining(s, r)[1]
               /\ CountEvents(res.out, "new_host", ToRoom(r)) = 1
          ELSE /\ res.rooms[r].creatorId = activeGameRooms[r].creatorId
               /\ CountEvents(res.out, "new_host", ToRoom(r)) = 0

\* The host has just left a room of three: the member who joined second is
\* the host and the other one is still a member.
C13_Witness ==
  \E r \in DOMAIN activeGameRooms :
    /\ CountEvents(emitted, "new_host", ToRoom(r)) = 1
    /\ Len(activeGameRooms[r].players) = 2
    /\ activeGameRooms[r].creatorId = activeGameRooms[r].players[1]

\* The pending timers of room r, with their numbers of copies.
TimersOf(b, r) == [t \in {u \in BagToSet(b) : u.room = r} |-> b[t]]

\* The deadline timers of room r whose handle the round state holds.
HeldDeadlines(b, r) ==
  {t \in BagToSet(b) : t.room = r /\ t.kind = "roundEnd" /\ t.held}

\* C14: when the drawer of an active doodle round leaves or disconnects and
\* at least 2 members remain, the step starts a new round: the drawer is one
\* of the remaining members, a word is drawn for the round and prompted to
\* that drawer, the stroke log is empty, and the only deadline timer the
\* round state holds is the one of the new round, the old one being gone.
C14_DrawerLeftStartsRound ==
  \A r \in DOMAIN activeGameRooms :
    \A s \in Range(activeGameRooms[r].players) \cap users :
      (ActiveDoodle(r) /\ s = gameStates[r].drawer /\ Len(Remaining(s, r)) >= 2) =>
        \A res \in Departures(s, r) :
          /\ r \in DOMAIN res.gs /\ r \in DOMAIN res.rooms
          /\ HasEvent(res.out, "game:new_round", ToRoom(r))
          /\ res.gs[r].isRoundActive
          /\ res.gs[r].drawer \in Range(Remaining(s, r))
          /\ res.gs[r].word \in Range(DOODLE_WORDS) \cap res.gs[r].usedWords
          /\ \E i \in DOMAIN res.out :
               /\ res.out[i].ev = "game:word_prompt"
               /\ res.out[i].to = ToSocket(res.gs[r].drawer)
               /\ res.out[i].word = res.gs[r].word
          /\ res.gs[r].drawingHistory = <<>>
          /\ HeldDeadlines(res.timers, r) = {Timer("roundEnd", r, res.gs[r].word, TRUE)}
          /\ CopiesOf(res.timers, HeldDeadlines(res.timers, r)) = 1

\* The drawer has just left a room of three: a new round is on with one of
\* the two others drawing on an empty canvas against a new deadline.
C14_Witness ==
  \E r \in DOMAIN gameStates :
    /\ ActiveDoodle(r)
    /\ Emitted("drawer_left", ToRoom(r))
    /\ HasEvent(emitted, "game:new_round", ToRoom(r))
    /\ Len(activeGameRooms[r].players) = 2
    /\ gameStates[r].drawingHistory = <<>>
    /\ CopiesOf(timers, HeldDeadlines(timers, r)) = 1

\* C15: when the host of a room with an active doodle round leaves or
\* disconnects, is not the drawer, and at least 2 members remain, the round
\* state of the room (drawer, word, scores, stroke log, timer handle) and
\* its pending timers are unchanged; of the room, only the membership and
\* the host change.
C15_HostLeftRoundContinues ==
  \A r \in DOMAIN activeGameRooms :
    \A s \in Range(activeGameRooms[r].players) \cap users :
      (/\ ActiveDoodle(r)
       /\ s = activeGameRooms[r].creatorId
       /\ s # gameStates[r].drawer
       /\ Len(Remaining(s, r)) >= 2) =>
        \A res \in Departures(s, r) :
          /\ r \in DOMAIN res.gs /\ res.gs[r] = gameStates[r]
          /\ TimersOf(res.timers, r) = TimersOf(timers, r)
          /\ r \in DOMAIN res.rooms
          /\ res.rooms[r] = [activeGameRooms[r] EXCEPT !.players = Remaining(s, r),
                                                       !.creatorId = Remaining(s, r)[1]]

\* The host, who was not drawing, has just left a room of three in the
\* middle of a round with strokes on the canvas and points scored.
C15_Witness ==
  \E r \in DOMAIN gameStates :
    /\ ActiveDoodle(r)
    /\ Emitted("new_host", ToRoom(r))
    /\ ~Emitted("drawer_left", ToRoom(r))
    /\ gameStates[r].drawingHistory # <<>>
    /\ \E id \in DOMAIN gameStates[r].scores : gameStates[r].scores[id] > 0
    /\ CopiesOf(timers, HeldDeadlines(timers, r)) = 1

\* C16: after the disconnect of a user, the user is a member of no room, the
\* host of no room, the drawer or turn holder of no active round, and not in
\* the registry.
C16_DisconnectedUserIsGone ==
  \A s \in users :
    \A rnd \in [AllRoomIds -> Draws] :
      LET res == disconnect(Cur, s, rnd)
      IN /\ s \notin res.users
         /\ \A r \in DOMAIN res.rooms :
              /\ s \notin Range(res.rooms[r].players)
              /\ s # res.rooms[r].creatorId
         /\ \A r \in DOMAIN res.gs :
              res.gs[r].isRoundActive =>
                IF res.gs[r].gameType = "doodle"
                THEN res.gs[r].drawer # s
                ELSE res.gs[r].currentPlayerTurn # s

\* A user who was a member of two rooms, host and drawer of one that
\* survives, has just disconnected.
C16_Witness ==
  \E r \in DOMAIN activeGameRooms, q \in AllRoomIds :
    /\ q # r
    /\ CountEvents(emitted, "left", ToRoom(r)) = 1
    /\ CountEvents(emitted, "left", ToRoom(q)) = 1
    /\ Emitted("new_host", ToRoom(r))
    /\ Emitted("drawer_left", ToRoom(r))
    /\ ActiveDoodle(r)
    /\ emitted[Len(emitted)].ev = "user list"

\* A start-game request of socket s for room r that the handler is to refuse.
StartRefused(s, r) ==
  \/ r \notin DOMAIN activeGameRooms
  \/ s # activeGameRooms[r].creatorId
  \/ activeGameRooms[r].gameType = "doodle" /\ Len(activeGameRooms[r].players) < 2
  \/ activeGameRooms[r].gameType = "hangman" /\ Len(activeGameRooms[r].players) # 2

\* C17: a start-game request from someone who is not the host, for a room
\* that does not exist, or for a room with too few members (fewer than 2 for
\* doodle, not exactly 2 for hangman) changes no room and no round state and
\* starts no timer; it emits at most one notice, to the requester.
C17_StartRefusedChangesNothing ==
  \A s \in Sockets, r \in RoomIds, rnd \in Draws, coin \in 0..1 :
    StartRefused(s, r) =>
      LET res == gameStart(Cur, s, r, rnd, coin)
      IN /\ Same(res, Cur)
         /\ Len(res.out) <= 1
         /\ \A i \in DOMAIN res.out : res.out[i].to = ToSocket(s)

\* A member who is not the host asks to start a game that the host could
\* start: the handler returns without a word.
C17_Witness ==
  \E r \in DOMAIN activeGameRooms :
    LET room == activeGameRooms[r]
    IN /\ Len(room.players) >= 2
       /\ ~room.inProgress
       /\ \E s \in Range(room.players) \cap users :
            /\ s # room.creatorId
            /\ gameStart(Cur, s, r, 0, 0).out = <<>>
            /\ Same(gameStart(Cur, s, r, 0, 0), Cur)

\* C18: an accepted start-game on a doodle room leaves the room in progress
\* with a score of zero for every member and for nobody else, the player
\* order equal to the membership order, a round active and the member at
\* index 0 of the order drawing.
C18_StartInitialisesGame ==
  \A s \in Sockets, r \in RoomIds, rnd \in Draws, coin \in 0..1 :
    (~StartRefused(s, r) /\ s \in users /\ activeGameRooms[r].gameType = "doodle") =>
      LET res == gameStart(Cur, s, r, rnd, coin)
          members == activeGameRooms[r].players
      IN /\ res.rooms[r].inProgress
         /\ r \in DOMAIN res.gs
         /\ DOMAIN res.gs[r].scores = Range(members)
         /\ \A id \in Range(members) : res.gs[r].scores[id] = 0
         /\ res.gs[r].players = members
         /\ res.gs[r].isRoundActive
         /\ res.gs[r].currentPlayerIndex = 0
         /\ res.gs[r].drawer = members[1]

\* A game has just been started in a doodle room of three.
C18_Witness ==
  \E r \in DOMAIN gameStates :
    /\ ActiveDoodle(r)
    /\ emitted # <<>> /\ emitted[1].ev = "game:new_round"
    /\ Len(activeGameRooms[r].players) = 3
    /\ gameStates[r].drawer = activeGameRooms[r].players[1]
    /\ \A id \in DOMAIN gameStates[r].scores : gameStates[r].scores[id] = 0

\* C19: while a room stays in the directory with its game in progress, the
\* round state start-game created is not re-initialised: no score decreases
\* and the used-word set loses no word, unless every word had been used.
C19_RoundStateKeptWhileInProgress ==
  [][\A r \in DOMAIN gameStates \cap DOMAIN gameStates' :
       (/\ gameStates[r].gameType = "doodle"
        /\ gameStates'[r].gameType = "doodle"
        /\ r \in DOMAIN activeGameRooms /\ activeGameRooms[r].inProgress
        /\ r \in DOMAIN activeGameRooms') =>
         /\ \A id \in DOMAIN gameStates[r].scores :
              /\ id \in DOMAIN gameStates'[r].scores
              /\ gameStates'[r].scores[id] >= gameStates[r].scores[id]
         /\ \/ gameStates[r].usedWords \subseteq gameStates'[r].usedWords
            \/ gameStates[r].usedWords = Range(DOODLE_WORDS)]_vars

\* A join request of socket s for room r with the given password that the
\* handler is to refuse.
JoinRefused(s, r, password) ==
  \/ r \notin DOMAIN activeGameRooms
  \/ activeGameRooms[r].inProgress
  \/ activeGameRooms[r].password # "" /\ activeGameRooms[r].password # password
  \/ s \in Range(activeGameRooms[r].players)
  \/ activeGameRooms[r].gameType = "hangman" /\ Len(activeGameRooms[r].players) >= 2

\* C20: a join request for a room that does not exist or is in progress,
\* with a wrong password, from a member, or for a hangman room of 2 changes
\* nothing and emits at most one notice, to the requester; no step adds a
\* member to a room in progress, and a hangman room has at most 2 members.
C20_JoinRefusedChangesNothing ==
  [][/\ \A s \in users, r \in AllRoomIds, password \in Passwords :
          JoinRefused(s, r, password) =>
            LET res == gameJoin(Cur, s, r, password)
            IN /\ Same(res, Cur)
               /\ Len(res.out) <= 1
               /\ \A i \in DOMAIN res.out : res.out[i].to = ToSocket(s)
     /\ \A r \in DOMAIN activeGameRooms \cap DOMAIN activeGameRooms' :
          activeGameRooms[r].inProgress =>
            Range(activeGameRooms'[r].players) \subseteq Range(activeGameRooms[r].players)
     /\ \A r \in DOMAIN activeGameRooms' :
          activeGameRooms'[r].gameType = "hangman" =>
            Len(activeGameRooms'[r].players) <= 2]_vars

\* A hangman room with a password has two members, and a third user who
\* sends the right password is told that the room is full.
C20_Witness ==
  \E r \in DOMAIN activeGameRooms, s \in users :
    LET room == activeGameRooms[r]
    IN /\ room.gameType = "hangman"
       /\ room.password # ""
       /\ Len(room.players) = 2
       /\ s \notin Range(room.players)
       /\ \E i \in DOMAIN gameJoin(Cur, s, r, room.password).out :
            gameJoin(Cur, s, r, room.password).out[i].text = "full"

\* ------------------------------------------------------------------- C21
\* The requester of a stop is the current host of an existing room.
mayStopAsHost(s, r) ==
  r \in DOMAIN activeGameRooms /\ s \in users /\ s = activeGameRooms[r].creatorId

\* C21: a stop request is honoured only when its requester is the room's
\* current host: the room and its round state are then deleted, the
\* termination notice goes to the room and nobody is left in the room's
\* audience; a stop request from anyone else changes nothing and emits
\* nothing.
C21_StopOnlyByHost ==
  \A s \in Sockets, r \in RoomIds :
    LET res == gameStop(Cur, s, r)
    IN IF mayStopAsHost(s, r)
       THEN /\ r \notin DOMAIN res.rooms
            /\ r \notin DOMAIN res.gs
            /\ res.out[1] = Event("game:terminated", ToRoom(r), "host_terminated", NoWord, {})
            /\ res.aud[r] = {}
            /\ \A q \in DOMAIN res.rooms : res.rooms[q] = activeGameRooms[q]
            /\ res.users = users
       ELSE Same(res, Cur) /\ res.out = <<>>

\* With every connection present, the host has stopped the room: the room
\* is gone and nobody is left in its audience.
C21_Witness ==
  /\ ~crashed
  /\ 1 \notin DOMAIN activeGameRooms
  /\ Emitted("host_terminated", ToRoom(1))
  /\ audience[1] = {}
  /\ Cardinality(users) = MaxSockets

\* ------------------------------------------------------------------- C22
\* Every score held by the round state g is below the winning score.
BelowWinning(g) == \A id \in DOMAIN g.scores : g.scores[id] < WINNING_SCORE

\* C22: a guess that brings a score to WINNING_SCORE or above ends the game
\* in the same step: game:over with the winner and the final scores goes to
\* the room, the room and its round state are deleted and no timer for a
\* further round is set; so no round state ever holds a score at or above
\* WINNING_SCORE.
C22_WinEndsGame ==
  /\ \A r \in DOMAIN gameStates :
       gameStates[r].gameType = "doodle" => BelowWinning(gameStates[r])
  /\ \A s \in users, r \in RoomIds, text \in Texts :
       ActiveDoodle(r) =>
         LET res == chatMessage(Cur, s, r, text, FALSE)
             g == gameStates[r]
             reached == /\ s # g.drawer
                        /\ toLowerCase(trim(text)) = toLowerCase(Chars(g.word))
                        /\ \/ ScoreOf(g.scores, s) + 2 >= WINNING_SCORE
                           \/ ScoreOf(g.scores, g.drawer) + 1 >= WINNING_SCORE
         IN IF reached
            THEN /\ r \notin DOMAIN res.gs
                 /\ r \notin DOMAIN res.rooms
                 /\ \E i \in DOMAIN res.out :
                      /\ res.out[i].ev = "game:over"
                      /\ res.out[i].to = ToRoom(r)
                      /\ res.out[i].winner \in users
                      /\ res.out[i].scores[res.out[i].winner] >= WINNING_SCORE
                      /\ \A id \in DOMAIN g.scores :
                           res.out[i].scores[id] >= g.scores[id]
                 /\ HeldDeadlines(res.timers, r) = {}
                 /\ BagCardinality(TimersOf(res.timers, r))
                      <= BagCardinality(TimersOf(timers, r))
            ELSE r \in DOMAIN res.gs /\ BelowWinning(res.gs[r])

\* A game has just been won: game:over went to the room, whose round state
\* is gone.
C22_Witness ==
  /\ ~crashed
  /\ 1 \notin DOMAIN gameStates
  /\ 1 \notin DOMAIN activeGameRooms
  /\ \E i \in DOMAIN emitted :
       /\ emitted[i].ev = "game:over"
       /\ emitted[i].to = ToRoom(1)
       /\ emitted[i].scores[emitted[i].winner] >= WINNING_SCORE

\* ------------------------------------------------------------------- C23
\* C23: a correct guess by a connection other than the drawer during an
\* active doodle round adds 2 to the guesser's score and 1 to the drawer's,
\* changes no other score, and leaves no deadline timer of the round pending.
C23_CorrectGuessScores ==
  \A s \in users, r \in RoomIds :
    (ActiveDoodle(r) /\ r \in DOMAIN activeGameRooms /\ s # gameStates[r].drawer) =>
      LET g == gameStates[r]
          res == chatMessage(Cur, s, r, Chars(g.word), FALSE)
      IN r \in DOMAIN res.gs =>
           LET after == res.gs[r].scores
           IN /\ DOMAIN after = DOMAIN g.scores \cup {s, g.drawer}
              /\ after[s] = ScoreOf(g.scores, s) + 2
              /\ after[g.drawer] = ScoreOf(g.scores, g.drawer) + 1
              /\ \A id \in DOMAIN g.scores \ {s, g.drawer} : after[id] = g.scores[id]
              /\ HeldDeadlines(res.timers, r) = {}

\* The first correct guess of a round has just been scored: the guesser has
\* 2, the drawer 1, and the deadline timer of the round is no longer pending.
C23_Witness ==
  /\ ~crashed
  /\ ActiveDoodle(1)
  /\ hist[1].guessed
  /\ HasEvent(emitted, "game:correct_guess", ToRoom(1))
  /\ \E s \in DOMAIN gameStates[1].scores :
       s # gameStates[1].drawer /\ gameStates[1].scores[s] = 2
  /\ ScoreOf(gameStates[1].scores, gameStates[1].drawer) = 1
  /\ HeldDeadlines(timers, 1) = {}
  /\ BagCardinality(TimersOf(timers, 1)) = 1

\* ------------------------------------------------------------------- C24
\* Texts a player may send as a guess: the chat texts, ordinary chatter, a
\* blank text, and the words with white space before, after or inside them,
\* in other cases, or with a letter more or less.
GuessTexts ==
  Texts \cup {<<"h", "i">>, <<" ">>,
              <<" ", "a", "p", "p", "l", "e">>,
              <<"a", "p", "p", "l", "e", "s">>,
              <<"a", "p", "p", " ", "l", "e">>,
              <<"a", "p", "p", "l">>,
              <<"\t", "B", "a", "N", "a", "n", "A", "\n">>}

\* The texts of GuessTexts that are the word once trimmed and lower-cased.
SpellingsOf(word) ==
  {Chars(word)}
    \cup (IF word = "apple"
          THEN {<<"A", "p", "p", "l", "e", " ">>, <<" ", "a", "p", "p", "l", "e">>}
          ELSE {})
    \cup (IF word = "banana"
          THEN {<<"\t", "B", "a", "N", "a", "n", "A", "\n">>}
          ELSE {})

C25_DrawerCannotGuess ==
  \A r \in RoomIds, text \in GuessTexts \ {<<" ">>} :
    (ActiveDoodle(r) /\ r \in DOMAIN activeGameRooms) =>
      LET s == gameStates[r].drawer
          res == chatMessage(Cur, s, r, text, FALSE)
      IN s \in users =>
           /\ Same(res, Cur)
           /\ res.out = <<Event("rate limit", ToSocket(s), "cannot_chat", NoWord, {})>>

\* A doodle round is active, nobody has guessed its word yet and its drawer
\* is connected: the drawer knows the word and may send it.
C25_Witness ==
  /\ ~crashed
  /\ ActiveDoodle(1)
  /\ gameStates[1].drawer \in users
  /\ ~hist[1].guessed
  /\ HeldDeadlines(timers, 1) # {}
  /\ \E i \in DOMAIN emitted :
       /\ emitted[i].ev = "game:word_prompt"
       /\ emitted[i].to = ToSocket(gameStates[1].drawer)
       /\ emitted[i].word = gameStates[1].word

\* ------------------------------------------------------------------- C26
\* C26: the word a new doodle round draws is not in the used set of the
\* game, unless every word of the list is in it; the used set is then
\* emptied before the draw.  The word drawn joins the used set.
C26_WordNotReused ==
  \A r \in DOMAIN gameStates, rnd \in Draws :
    (/\ gameStates[r].gameType = "doodle"
     /\ r \in DOMAIN activeGameRooms
     /\ Len(activeGameRooms[r].players) >= 2) =>
      LET used == gameStates[r].usedWords
          res == startNewDoodleRound(Cur, r, rnd)
          exhausted == Range(DOODLE_WORDS) \subseteq used
      IN ~res.crashed =>
           /\ res.gs[r].word \in Range(DOODLE_WORDS)
           /\ ~exhausted => /\ res.gs[r].word \notin used
                            /\ res.gs[r].usedWords = used \cup {res.gs[r].word}
           /\ exhausted => res.gs[r].usedWords = {res.gs[r].word}

\* A round has just started with the last unused word of the list: every
\* word is now in the used set, and the next round will empty it.
C26_Witness ==
  /\ ~crashed
  /\ ActiveDoodle(1)
  /\ HasEvent(emitted, "game:new_round", ToRoom(1))
  /\ gameStates[1].usedWords = Range(DOODLE_WORDS)
  /\ gameStates[1].word = DOODLE_WORDS[NumWords]

\* ------------------------------------------------------------------- C27
\* C27: in a doodle game the stroke log is empty when a round starts; a
\* stroke from the drawer of the active round is appended to the end of the
\* log and relayed to the others; a clear request from the drawer empties the
\* log and is announced to the room; a stroke or a clear request from anyone
\* else changes nothing and is not relayed.  So the log is, in order, the
\* strokes relayed since the round started or the canvas was last cleared.
C27_StrokeLogIsWhatWasRelayed ==
  \A r \in DOMAIN gameStates :
    (gameStates[r].gameType = "doodle" /\ r \in DOMAIN activeGameRooms) =>
      LET g == gameStates[r]
      IN /\ \A s \in users, data \in Strokes :
              LET res == gameDraw(Cur, s, r, data)
              IN IF g.isRoundActive /\ s = g.drawer
                 THEN /\ res.gs = [gameStates EXCEPT ![r].drawingHistory = Append(@, data)]
                      /\ res.out = <<Event("game:draw", ToOthers(r), data, NoWord, {})>>
                 ELSE Same(res, Cur) /\ res.out = <<>>
         /\ \A s \in users :
              LET res == gameClearCanvas(Cur, s, r)
              IN IF s = g.drawer
                 THEN /\ res.gs = [gameStates EXCEPT ![r].drawingHistory = <<>>]
                      /\ res.out = <<Event("game:clear_canvas", ToRoom(r), "", NoWord, {})>>
                 ELSE Same(res, Cur) /\ res.out = <<>>
         /\ Len(activeGameRooms[r].players) >= 2 =>
              \A rnd \in Draws :
                LET res == startNewDoodleRound(Cur, r, rnd)
                IN ~res.crashed => res.gs[r].drawingHistory = <<>>

\* The drawer of an active round has just had a stroke logged and relayed
\* to the others of a room of three.
C27_Witness ==
  /\ ~crashed
  /\ ActiveDoodle(1)
  /\ gameStates[1].drawingHistory = <<"a">>
  /\ emitted = <<Event("game:draw", ToOthers(1), "a", NoWord, {})>>
  /\ Len(activeGameRooms[1].players) = 3

\* ------------------------------------------------------------------- C28
\* C28: a stroke or a clear request for any room, from a connection that is
\* not the drawer of the room's round (the room may have no round state, or
\* a round state without a drawer), is refused without a fault: the handler
\* completes, changes nothing and emits nothing.
C28_DrawRefusedWithoutFault ==
  \A s \in users, r \in RoomIds, data \in Strokes :
    (r \in DOMAIN gameStates /\ hasDrawer(gameStates[r]) => s # gameStates[r].drawer) =>
      LET drawn == gameDraw(Cur, s, r, data)
          cleared == gameClearCanvas(Cur, s, r)
      IN /\ ~drawn.crashed /\ Same(drawn, Cur) /\ drawn.out = <<>>
         /\ ~cleared.crashed /\ Same(cleared, Cur) /\ cleared.out = <<>>

\* ------------------------------------------------------------------- C29
\* An active hangman round of room r whose turn holder is connected.
HangmanTurn(r) ==
  /\ ~crashed
  /\ r \in DOMAIN gameStates
  /\ r \in DOMAIN activeGameRooms
  /\ gameStates[r].gameType = "hangman"
  /\ gameStates[r].isRoundActive
  /\ gameStates[r].currentPlayerTurn \in users

\* C29: when the turn holder of an active hangman round sends a single
\* letter that has not been guessed and the round does not end, the handler
\* completes normally: the turn passes to the other player if the letter is
\* not in the word and stays with the guesser if it is.
C29_ValidGuessPassesOrKeepsTurn ==
  \A r \in RoomIds, letter \in {<<"t">>, <<"z">>} :
    (/\ HangmanTurn(r)
     /\ letter[1] \notin Range(gameStates[r].correctGuesses)
     /\ letter[1] \notin Range(gameStates[r].incorrectGuesses)) =>
      LET g == gameStates[r]
          s == g.currentPlayerTurn
          res == handleHangmanGuess(Cur, s, r, letter)
          others == Range(activeGameRooms[r].players) \ {s}
      IN res.gs[r].isRoundActive =>
           /\ ~res.crashed
           /\ IF letter[1] \in Range(Chars(g.word))
              THEN res.gs[r].currentPlayerTurn = s
              ELSE others # {} => res.gs[r].currentPlayerTurn \in others

\* ------------------------------------------------------------------- C30
\* Guesses that are not a single letter once trimmed and lower-cased.
MalformedLetters == {<<"h", "t">>, <<"1">>, <<>>, <<" ">>}

\* C30: a guess of the turn holder that is malformed, or is a letter already
\* guessed, is rejected with a notice to the sender only: the guessed
\* letters, the turn holder and the pending turn deadline stay as they are
\* (no timer is set anew) and nothing is emitted to anyone else.
C30_RejectedGuessChangesNothing ==
  \A r \in RoomIds, letter \in MalformedLetters \cup {<<"t">>, <<"z">>} :
    (/\ HangmanTurn(r)
     /\ letter \notin MalformedLetters =>
          letter[1] \in Range(gameStates[r].correctGuesses)
                          \cup Range(gameStates[r].incorrectGuesses)) =>
      LET s == gameStates[r].currentPlayerTurn
          res == handleHangmanGuess(Cur, s, r, letter)
      IN /\ ~res.crashed
         /\ res.gs = gameStates
         /\ res.timers = timers
         /\ res.armed = <<>>
         /\ res.out # <<>>
         /\ \A i \in DOMAIN res.out :
              res.out[i].ev = "rate limit" /\ res.out[i].to = ToSocket(s)

\* ------------------------------------------------------------------- C31
\* C31: a letter guess from a connection that is not the turn holder of the
\* room's hangman round, or sent while the room has no active hangman round,
\* changes no state and sets no timer; at most one notice is emitted, to the
\* sender.
C31_GuessOutOfTurnChangesNothing ==
  \A s \in Sockets, r \in RoomIds, letter \in Letters \cup MalformedLetters :
    (~crashed /\ (IsHangmanRound(r) => s # gameStates[r].currentPlayerTurn)) =>
      LET res == hangmanGuess(Cur, s, r, letter)
      IN /\ Same(res, Cur)
         /\ res.armed = <<>>
         /\ Len(res.out) <= 1
         /\ \A i \in DOMAIN res.out : res.out[i].to = ToSocket(s)

\* The player who does not hold the turn of an active hangman round guesses
\* a letter and gets the notice.
C31_Witness ==
  \E r \in RoomIds :
    /\ HangmanTurn(r)
    /\ \E s \in Range(activeGameRooms[r].players) \cap users :
         /\ s # gameStates[r].currentPlayerTurn
         /\ LET res == hangmanGuess(Cur, s, r, <<"t">>)
            IN /\ Len(res.out) = 1
               /\ res.out[1].ev = "rate limit"
               /\ res.out[1].to = ToSocket(s)
               /\ Same(res, Cur)

\* ------------------------------------------------------------------- C32
\* The handler's result ended the hangman round of r as a loss: the round is
\* over, the word is announced to the room and the handler scheduled the
\* next round's start once and set no other timer.
EndedAsLoss(res, r, word) ==
  /\ ~res.crashed
  /\ ~res.gs[r].isRoundActive
  /\ res.gs[r].isGameOver
  /\ \E i \in DOMAIN res.out :
       /\ res.out[i].ev = "game:message"
       /\ res.out[i].to = ToRoom(r)
       /\ res.out[i].text = "game_over"
       /\ res.out[i].word = word
  /\ res.armed = <<Timer("nextHangman", r, NoWord, FALSE)>>

\* C32: the incorrect count of a hangman round (wrong letters and turn
\* timeouts) never exceeds MAX_INCORRECT_GUESSES and is below it while the
\* round is active; a guess or a timeout that brings the count to
\* MAX_INCORRECT_GUESSES ends the round as a loss, announces the word and
\* schedules exactly one start of the next round.
C32_IncorrectCountBounded ==
  \A r \in DOMAIN gameStates :
    LET g == gameStates[r]
    IN g.gameType = "hangman" =>
         /\ Len(g.incorrectGuesses) <= MAX_INCORRECT_GUESSES
         /\ g.isRoundActive => Len(g.incorrectGuesses) < MAX_INCORRECT_GUESSES
         /\ (~crashed /\ g.isRoundActive) =>
              /\ \A t \in BagToSet(timers) :
                   (t.kind = "turn" /\ t.room = r) =>
                     LET res == handleHangmanTimeout(Fired(t), r)
                     IN Len(res.gs[r].incorrectGuesses) = MAX_INCORRECT_GUESSES
                          => EndedAsLoss(res, r, g.word)
              /\ \A letter \in Letters :
                   LET res == hangmanGuess(Cur, g.currentPlayerTurn, r, letter)
                   IN (/\ g.currentPlayerTurn \in users
                       /\ Len(res.gs[r].incorrectGuesses) = MAX_INCORRECT_GUESSES)
                        => EndedAsLoss(res, r, g.word)

\* A hangman round has just been lost on its last allowed miss: the word was
\* announced and the next round's start is pending.
C32_Witness ==
  \E r \in DOMAIN gameStates :
    /\ ~crashed
    /\ gameStates[r].gameType = "hangman"
    /\ Len(gameStates[r].incorrectGuesses) = MAX_INCORRECT_GUESSES
    /\ ~gameStates[r].isRoundActive
    /\ Emitted("game_over", ToRoom(r))
    /\ \E t \in BagToSet(timers) : t.kind = "nextHangman" /\ t.room = r

\* ------------------------------------------------------------------- C33
\* The result of a scheduled round start of room r that fired in the
\* current state: no fault, and if the room is gone no room, no round state,
\* no active round and no timer comes of it.
StartFiredSafely(res, r) ==
  /\ ~res.crashed
  /\ r \notin DOMAIN activeGameRooms =>
       /\ res.rooms = activeGameRooms
       /\ DOMAIN res.gs = DOMAIN gameStates
       /\ r \in DOMAIN res.gs => ~res.gs[r].isRoundActive
       /\ res.armed = <<>>

\* C33: whatever leaves and disconnects happened since a next-round start
\* was scheduled, the start raises no fault when it fires, and for a room
\* that no longer exists it creates no round state and starts no round.
C33_ScheduledStartAfterLeave ==
  ~crashed =>
    \A t \in BagToSet(timers), rnd \in Draws, coin \in 0..1 :
      /\ t.kind = "nextDoodle" =>
           StartFiredSafely(startNewDoodleRound(Fired(t), t.room, rnd), t.room)
      /\ t.kind = "nextHangman" =>
           StartFiredSafely(startNewHangmanRound(Fired(t), t.room, rnd, coin), t.room)

\* A member left between two rounds, the room was torn down, and the start
\* scheduled for the room has fired and found nothing to start.
C33_Witness ==
  \E r \in RoomIds :
    /\ ~crashed
    /\ r \notin DOMAIN activeGameRooms
    /\ r \notin DOMAIN gameStates
    /\ Emitted("not_enough", ToRoom(r))
    /\ \E i \in DOMAIN emitted : emitted[i].ev = "game:end"

\* ------------------------------------------------------------------- C34
\* The doodle round of r is active and its drawer is the k-th member of the
\* rotation; every new round moves the rotation on.
RoundAt(r, k) == ActiveDoodle(r) /\ gameStates[r].currentPlayerIndex = k

\* The round of r that was at k is over: a new round has started, or the
\* room is gone (game won, stopped, or torn down).
RoundPast(r, k) ==
  \/ r \notin DOMAIN activeGameRooms
  \/ r \in DOMAIN gameStates /\ gameStates[r].currentPlayerIndex # k

\* A doodle room in progress has a pending timer.
InProgressHasTimer ==
  \A r \in RoomIds :
    (~crashed /\ IsDoodleRoom(r) /\ activeGameRooms[r].inProgress) =>
      PendingIn(timers, r) >= 1

\* C34: if every pending timer fires in the end, an active doodle round is
\* always followed by a new round or by the end of its room, and a doodle
\* room in progress always has a pending timer to advance it.
C34_DoodleRoundAdvances ==
  /\ []InProgressHasTimer
  /\ \A r \in RoomIds, k \in 0..(MaxSockets - 1) : RoundAt(r, k) ~> RoundPast(r, k)

\* A round that ran out of time has been followed by a new round with a new
\* word, started by the timer.
C34_Witness ==
  \E r \in RoomIds :
    /\ ActiveDoodle(r)
    /\ Cardinality(gameStates[r].usedWords) = 2
    /\ \E i \in DOMAIN emitted : emitted[i].ev = "game:new_round"
    /\ PendingIn(timers, r) = 1
    /\ \E t \in BagToSet(timers) : t.kind = "roundEnd" /\ t.held /\ ~t.stale

\* ------------------------------------------------------------------- C35
\* C35: in the part_000 server a connection receives the guess award at most
\* once in a round, a correct guess from a connection already in the
\* per-round guesser set changes no score, and the guesser set holds exactly
\* those awarded since the round started (so it is empty at every start).
C35_OneAwardPerRound ==
  /\ \A s \in Sockets : rev0.awards[s] <= 1
  /\ P0Room \in DOMAIN rev0.gs =>
       LET g == rev0.gs[P0Room]
       IN /\ g.guesserIds = {s \in Sockets : rev0.awards[s] > 0}
          /\ \A s \in g.guesserIds, msg \in P0Texts, rnd \in Draws :
               LET res == p0_chatMessage(rev0, s, msg, rnd)
               IN P0Room \in DOMAIN res.gs /\ res.gs[P0Room].scores = g.scores

\* With three members in the round, one has guessed the word and been
\* awarded; the round goes on and a second correct guess of theirs is taken
\* as chat.
C35_Witness ==
  /\ ~rev0.crashed
  /\ P0Room \in DOMAIN rev0.gs
  /\ LET g == rev0.gs[P0Room]
     IN /\ g.isRoundActive
        /\ Len(rev0.rooms[P0Room].players) = 3
        /\ \E s \in g.guesserIds \cap rev0.users :
             /\ s # g.drawer
             /\ g.scores[s] = GUESS_SCORE
             /\ g.scores[g.drawer] = DRAW_SCORE_PER_GUESSER
             /\ p0_chatMessage(rev0, s, Chars(g.word), 0) = rev0

\* ------------------------------------------------------------------- C36
\* C36: the winner announced by game:over is a connected user whose score is
\* at or above WINNING_SCORE and is the highest of the scores broadcast with
\* the announcement.
C36_WinnerHasHighestScore ==
  \A i \in DOMAIN emitted :
    emitted[i].ev = "game:over" =>
      LET w == emitted[i].winner
          scores == emitted[i].scores
      IN /\ w \in users
         /\ w \in DOMAIN scores
         /\ scores[w] >= WINNING_SCORE
         /\ \A id \in DOMAIN scores : scores[id] <= scores[w]

\* ------------------------------------------------------------------- C37
\* The handler's result took no 'drawer not found' retry and raised no
\* fault, and a round it left active in r is drawn by a connected member.
NoRetry(res, r) ==
  /\ res.retries = 0
  /\ ~res.crashed
  /\ (r \in DOMAIN res.gs /\ r \in DOMAIN res.rooms
        /\ res.gs[r].gameType = "doodle" /\ res.gs[r].isRoundActive) =>
       /\ res.gs[r].drawer \in res.users
       /\ res.gs[r].drawer \in Range(res.rooms[r].players)

\* C37: every member of every room is a connected user with a profile, and
\* no call of startNewDoodleRound (from game:start, from a leave or
\* disconnect of the drawer, or from the next-round timer) takes the
\* 'drawer not found' retry: each returns having picked a connected member
\* as drawer or having ended the round.
C37_DrawerAlwaysFound ==
  /\ \A r \in DOMAIN activeGameRooms : Range(activeGameRooms[r].players) \subseteq users
  /\ ~crashed =>
       \A r \in RoomIds, rnd \in Draws :
         /\ \A s \in users :
              /\ NoRetry(gameStart(Cur, s, r, rnd, 0), r)
              /\ NoRetry(gameLeave(Cur, s, r, rnd), r)
              /\ NoRetry(disconnect(Cur, s, [x \in RoomIds |-> rnd]), r)
         /\ \A t \in BagToSet(timers) :
              (t.kind = "nextDoodle" /\ t.room = r) =>
                NoRetry(startNewDoodleRound(Fired(t), r, rnd), r)

\* The drawer of a round with three members has disconnected: the members
\* left are connected and startNewDoodleRound has made one of them the
\* drawer of a new round at its first attempt.
C37_Witness ==
  \E r \in DOMAIN activeGameRooms :
    /\ ActiveDoodle(r)
    /\ Len(activeGameRooms[r].players) = 2
    /\ Cardinality(users) = 2
    /\ gameStates[r].drawer \in users
    /\ Emitted("drawer_left", ToRoom(r))
    /\ \E i \in DOMAIN emitted : emitted[i].ev = "game:new_round"

\* ------------------------------------------------------------------- C38
\* C38: in the part_001 server (lines 1-806), when the drawer of an active
\* round disconnects and at least 2 members remain, startNewRound returns:
\* it has made a connected member the drawer or has deactivated the round,
\* and the handler ends without a fault.
C38_StartNewRoundTerminates ==
  \A s \in rev1.users :
    LET r == rev1.roomOf[s]
        res == p1_disconnect(rev1, s, 0)
    IN (/\ ~rev1.crashed
        /\ r \in DOMAIN rev1.rooms
        /\ r \in DOMAIN rev1.gs
        /\ rev1.gs[r].isRoundActive
        /\ rev1.gs[r].drawer = s
        /\ Len(filterNotIn(rev1.rooms[r].players, {s})) >= 2) =>
         /\ ~res.crashed
         /\ res.gs[r].isRoundActive =>
              /\ res.gs[r].drawer \in res.users
              /\ res.gs[r].drawer \in Range(res.rooms[r].players)

\* ------------------------------------------------------------------- C39
\* C39: a round state exists for a room id exactly when the room exists and
\* is marked in progress: no round state outlives its room and no
\* in-progress room lacks one, whatever events and timers have run.
C39_RoundStateIffInProgress ==
  \A r \in AllRoomIds :
    r \in DOMAIN gameStates <=>
      (r \in DOMAIN activeGameRooms /\ activeGameRooms[r].inProgress)

\* A room whose game was in progress has just been torn down: the room was
\* created, the termination has been announced to it, and neither the room
\* nor a round state is left.
C39_Witness ==
  \E r \in RoomIds :
    /\ r <= roomsCreated
    /\ HasEvent(emitted, "game:terminated", ToRoom(r))
    /\ r \notin DOMAIN activeGameRooms
    /\ r \notin DOMAIN gameStates

====
